---------------------------- MODULE Spec2Model ----------------------------
(***************************************************************************)
(* Model of utils/config_manager.py (ConfigManager): the layered           *)
(* configuration resolver, its calls taken whole and, for get() and set()  *)
(* in several threads, statement by statement; of utils/calculator.py      *)
(* (Calculator); and, after it, of APIClient.wait_for_status and           *)
(* health_check (utils/api_client.py), of reloads of the manager while     *)
(* files, variables and threads change, of WebDriverManager                *)
(* (utils/webdriver_manager.py), of main() of run_tests.py and of          *)
(* pytest_collection_modifyitems of conftest.py.                           *)
(*                                                                         *)
(* Python values are records tagged with their type.  A Python str is a    *)
(* sequence of tokens: the value of a recognized environment variable is   *)
(* spelled character by character (so that lower(), isdigit() and int()    *)
(* can be computed), a literal of the source is kept as one opaque token,  *)
(* and the "." of a dotted key is a token of its own (so that split('.')   *)
(* can be computed).  A dict is a function from str to value.  An          *)
(* operation that can raise returns [exc, val]: exc is "None" or the       *)
(* exception's class, val the result (for an in-place operation: the       *)
(* object as the operation left it).                                       *)
(***************************************************************************)
EXTENDS Integers, Sequences, FiniteSets, TLC

VARIABLES
    environ,          \* os.environ: function from the names of the set variables to their str
    files,            \* config_dir: function from "<env>" to the content of <env>.yaml, for the files that exist
    _config,          \* self._config: None or the held configuration tree
    call,             \* the latest call on the manager: operation, arguments, outcome, tree before it
    sets,             \* how many set() calls were made on the held tree
    initial,          \* the environment, the files and the tree of the construction
    base_config,      \* _merge_config's first argument (merge specification)
    override_config,  \* _merge_config's second argument (merge specification)
    getters,          \* the threads inside get(): function from thread to its frame
    setters,          \* the threads inside set(): function from thread to its frame
    heap,             \* the dict objects the threads of set() work on, by identity
    history,          \* Calculator.history: the list of entries
    log,              \* the successful Calculator operations since the last clear, in order
    outcome,          \* the latest Calculator call: operation, operands, exception, result
    loader,           \* the thread inside reload_config(): its frame
    instances,        \* the ConfigManager objects of a process: function from object to its tree
    client,           \* an APIClient call in progress, the clock and the requests sent
    wdm,              \* a WebDriverManager: the driver it holds, the drivers quit, the latest call
    runner,           \* run_tests.main: the commands run, their results, the exit status
    items             \* the tests pytest collected: file, markers

mergeVars == <<base_config, override_config>>
threadVars == <<getters, setters, heap, loader, instances>>
calcVars == <<history, log, outcome>>
toolVars == <<client, wdm, runner, items>>
vars == <<environ, files, _config, call, sets, initial, mergeVars, threadVars, calcVars, toolVars>>

---------------------------------------------------------------------------
(* Python values *)

EmptyMap == [k \in {} |-> FALSE]

\* A value: its type t and, in the field of that type, its content (the
\* fields of the other types are blank).
PyNone == [t |-> "NoneType", b |-> FALSE, n |-> 0, s |-> <<>>, d |-> EmptyMap]
PyBool(x) == [PyNone EXCEPT !.t = "bool", !.b = x]
PyInt(x) == [PyNone EXCEPT !.t = "int", !.n = x]
PyStr(x) == [PyNone EXCEPT !.t = "str", !.s = x]
PyDict(x) == [PyNone EXCEPT !.t = "dict", !.d = x]

\* A str literal of the source, kept as one token.
Lit(s) == PyStr(<<s>>)

\* A dict key written as a literal.
K(s) == <<s>>

EmptyDict == PyDict(EmptyMap)

IsDict(x) == x.t = "dict"

\* isinstance(x, dict) and the dict's keys
Keys(x) == DOMAIN x.d

\* bool(x): the truth value `or` tests
Truthy(x) ==
    CASE x.t = "NoneType" -> FALSE
      [] x.t = "bool" -> x.b
      [] x.t = "int" -> x.n # 0
      [] x.t = "str" -> Len(x.s) > 0
      [] x.t = "dict" -> Keys(x) # {}

Ok(x) == [exc |-> "None", val |-> x]
Raise(e, x) == [exc |-> e, val |-> x]

\* obj[k]
GetItem(obj, k) ==
    IF IsDict(obj)
    THEN IF k \in Keys(obj) THEN Ok(obj.d[k]) ELSE Raise("KeyError", obj)
    ELSE Raise("TypeError", obj)

\* obj[k] = x  (in place: val is obj afterwards)
SetItem(obj, k, x) ==
    IF IsDict(obj)
    THEN Ok(PyDict([j \in Keys(obj) \cup {k} |-> IF j = k THEN x ELSE obj.d[j]]))
    ELSE Raise("TypeError", obj)

\* whether the tokens of `part` occur contiguously in `whole`
IsSubstring(part, whole) ==
    \E i \in 0..(Len(whole) - Len(part)) :
        \A j \in 1..Len(part) : whole[i + j] = part[j]

\* k in obj: membership for a dict, substring for a str (of tokens here; the
\* statement that follows the test in set() raises TypeError on a str whatever
\* the answer), TypeError for None, bool and int
Contains(obj, k) ==
    CASE obj.t = "dict" -> Ok(k \in Keys(obj))
      [] obj.t = "str" -> Ok(IsSubstring(k, obj.s))
      [] OTHER -> Raise("TypeError", FALSE)

---------------------------------------------------------------------------
(* str methods *)

UpperCase == <<"A", "B", "C", "D", "E", "F", "G", "H", "I", "J", "K", "L", "M",
               "N", "O", "P", "Q", "R", "S", "T", "U", "V", "W", "X", "Y", "Z">>
LowerCase == <<"a", "b", "c", "d", "e", "f", "g", "h", "i", "j", "k", "l", "m",
               "n", "o", "p", "q", "r", "s", "t", "u", "v", "w", "x", "y", "z">>

LowerChar(c) ==
    IF \E i \in 1..Len(UpperCase) : UpperCase[i] = c
    THEN LowerCase[CHOOSE i \in 1..Len(UpperCase) : UpperCase[i] = c]
    ELSE c

\* s.lower()
Lower(s) == [i \in 1..Len(s) |-> LowerChar(s[i])]

DecimalDigits == <<"0", "1", "2", "3", "4", "5", "6", "7", "8", "9">>

IsDecimalChar(c) == \E i \in 1..Len(DecimalDigits) : DecimalDigits[i] = c

DigitValue(c) == (CHOOSE i \in 1..Len(DecimalDigits) : DecimalDigits[i] = c) - 1

\* Characters with the Unicode property Numeric_Type=Digit that are no decimal
\* digits: str.isdigit() accepts them and int() rejects them.  "U+00B2" is the
\* character SUPERSCRIPT TWO.
NonDecimalDigits == {"U+00B2"}

\* s.isdigit(): s is not empty and each character is a digit
IsDigit(s) ==
    /\ Len(s) > 0
    /\ \A i \in 1..Len(s) : IsDecimalChar(s[i]) \/ s[i] \in NonDecimalDigits

RECURSIVE DecimalValue(_)
DecimalValue(s) ==
    IF Len(s) = 0 THEN 0
    ELSE 10 * DecimalValue(SubSeq(s, 1, Len(s) - 1)) + DigitValue(s[Len(s)])

\* int(s), for the s that isdigit() lets through
ParseInt(s) ==
    IF \A i \in 1..Len(s) : IsDecimalChar(s[i])
    THEN Ok(PyInt(DecimalValue(s)))
    ELSE Raise("ValueError", PyStr(s))

\* key.split('.'): the str between the separators
RECURSIVE Split(_)
Split(key) ==
    IF \E i \in 1..Len(key) : key[i] = "."
    THEN LET i == CHOOSE n \in 1..Len(key) :
                      key[n] = "." /\ \A m \in 1..(n - 1) : key[m] # "."
         IN <<SubSeq(key, 1, i - 1)>> \o Split(SubSeq(key, i + 1, Len(key)))
    ELSE <<key>>

---------------------------------------------------------------------------
(* ConfigManager._load_config: the default configuration *)

default_config ==
    PyDict(
        K("web") :> PyDict(
            K("base_url") :> Lit("http://localhost:3000") @@
            K("implicit_wait") :> PyInt(10) @@
            K("explicit_wait") :> PyInt(20) @@
            K("page_load_timeout") :> PyInt(30) @@
            K("window_size") :> PyDict(K("width") :> PyInt(1920) @@ K("height") :> PyInt(1080)))
     @@ K("api") :> PyDict(
            K("base_url") :> Lit("http://localhost:8000") @@
            K("timeout") :> PyInt(30) @@
            K("headers") :> PyDict(
                K("Content-Type") :> Lit("application/json") @@
                K("Accept") :> Lit("application/json")))
     @@ K("database") :> PyDict(
            K("url") :> Lit("sqlite:///test.db") @@
            K("pool_size") :> PyInt(10) @@
            K("max_overflow") :> PyInt(20))
     @@ K("browser") :> PyDict(
            K("name") :> Lit("chrome") @@
            K("headless") :> PyBool(TRUE) @@
            K("download_path") :> Lit("./downloads") @@
            K("user_agent") :> PyNone)
     @@ K("mobile") :> PyDict(
            K("platform") :> Lit("Android") @@
            K("device_name") :> Lit("Pixel_4_API_30") @@
            K("app_path") :> PyNone)
     @@ K("reporting") :> PyDict(
            K("html_report") :> PyBool(TRUE) @@
            K("json_report") :> PyBool(TRUE) @@
            K("xml_report") :> PyBool(TRUE) @@
            K("screenshot_on_failure") :> PyBool(TRUE) @@
            K("video_recording") :> PyBool(FALSE))
     @@ K("parallel") :> PyDict(
            K("enabled") :> PyBool(TRUE) @@
            K("workers") :> Lit("auto") @@
            K("max_workers") :> PyInt(4))
     @@ K("retry") :> PyDict(
            K("enabled") :> PyBool(TRUE) @@
            K("max_retries") :> PyInt(2) @@
            K("retry_delay") :> PyInt(1))
     @@ K("logging") :> PyDict(
            K("level") :> Lit("INFO") @@
            K("format") :> Lit("%(asctime)s - %(name)s - %(levelname)s - %(message)s") @@
            K("file") :> Lit("logs/test.log")))

---------------------------------------------------------------------------
(* ConfigManager._merge_config *)

RECURSIVE _merge_config(_, _)

\* Mutant: the override value always replaces the base value, without recursion.
MergeItemReplace(base_config_, key, value) == SetItem(base_config_, key, value).val

\* Mutant: a value of another kind than the base value (mapping against
\* non-mapping) is refused.
MergeItemTypeChecked(base_config_, key, value) ==
    IF key \in Keys(base_config_) /\ IsDict(base_config_.d[key]) /\ IsDict(value)
    THEN SetItem(base_config_, key, _merge_config(base_config_.d[key], value)).val
    ELSE IF key \in Keys(base_config_) /\ IsDict(base_config_.d[key]) # IsDict(value)
         THEN base_config_
         ELSE SetItem(base_config_, key, value).val

\* One iteration of the loop over override_config.items(): base_config afterwards.
MergeItem(base_config_, key, value) ==
    IF key \in Keys(base_config_) /\ IsDict(base_config_.d[key]) /\ IsDict(value)
    THEN SetItem(base_config_, key, _merge_config(base_config_.d[key], value)).val
    ELSE SetItem(base_config_, key, value).val

\* The loop: the items are taken one at a time, each merged into what the
\* earlier ones left.
RECURSIVE MergeItems(_, _, _)
MergeItems(base_config_, override_config_, keys) ==
    IF keys = {} THEN base_config_
    ELSE LET key == CHOOSE k \in keys : TRUE
         IN MergeItems(MergeItem(base_config_, key, override_config_.d[key]),
                       override_config_, keys \ {key})

\* base_config after _merge_config(base_config, override_config); both are dicts.
_merge_config(base_config_, override_config_) ==
    MergeItems(base_config_, override_config_, Keys(override_config_))

---------------------------------------------------------------------------
(* ConfigManager._override_with_env_vars *)

env_mappings ==
    << <<"WEB_BASE_URL", <<K("web"), K("base_url")>> >>,
       <<"API_BASE_URL", <<K("api"), K("base_url")>> >>,
       <<"DATABASE_URL", <<K("database"), K("url")>> >>,
       <<"BROWSER_NAME", <<K("browser"), K("name")>> >>,
       <<"BROWSER_HEADLESS", <<K("browser"), K("headless")>> >>,
       <<"IMPLICIT_WAIT", <<K("web"), K("implicit_wait")>> >>,
       <<"EXPLICIT_WAIT", <<K("web"), K("explicit_wait")>> >>,
       <<"PAGE_LOAD_TIMEOUT", <<K("web"), K("page_load_timeout")>> >>,
       <<"API_TIMEOUT", <<K("api"), K("timeout")>> >>,
       <<"LOG_LEVEL", <<K("logging"), K("level")>> >>,
       <<"PARALLEL_WORKERS", <<K("parallel"), K("workers")>> >>,
       <<"RETRY_COUNT", <<K("retry"), K("max_retries")>> >>,
       <<"SCREENSHOT_ON_FAILURE", <<K("reporting"), K("screenshot_on_failure")>> >>,
       <<"VIDEO_RECORDING", <<K("reporting"), K("video_recording")>> >> >>

\* os.getenv(name) is not None
IsSet(env, name) == name \in DOMAIN env

\* The conversion of a variable's str: bool, int or the str itself.
ConvertEnvValue(env_value) ==
    IF Lower(env_value) \in {<<"t", "r", "u", "e">>, <<"f", "a", "l", "s", "e">>}
    THEN Ok(PyBool(Lower(env_value) = <<"t", "r", "u", "e">>))
    ELSE IF IsDigit(env_value)
         THEN ParseInt(env_value)
         ELSE Ok(PyStr(env_value))

\* current = config; for key in config_path[:-1]: current = current[key]
RECURSIVE Navigate(_, _)
Navigate(current, path) ==
    IF Len(path) = 0 THEN Ok(current)
    ELSE LET r == GetItem(current, Head(path))
         IN IF r.exc # "None" THEN r ELSE Navigate(r.val, Tail(path))

\* config after the object that path leads to, a part of config, became x
RECURSIVE Replace(_, _, _)
Replace(config, path, x) ==
    IF Len(path) = 0 THEN x
    ELSE SetItem(config, Head(path),
                 Replace(config.d[Head(path)], Tail(path), x)).val

\* Mutant: `if env_value:` for `if env_value is not None:`, an empty value is skipped.
OverrideOneSkipEmpty(config, env, env_var, config_path) ==
    IF ~IsSet(env, env_var) \/ env[env_var] = <<>> THEN Ok(config)
    ELSE LET parent == SubSeq(config_path, 1, Len(config_path) - 1)
             current == Navigate(config, parent)
             env_value == ConvertEnvValue(env[env_var])
             w == SetItem(current.val, config_path[Len(config_path)], env_value.val)
         IN IF current.exc # "None" THEN Raise(current.exc, config)
            ELSE IF env_value.exc # "None" THEN Raise(env_value.exc, config)
                 ELSE IF w.exc # "None" THEN Raise(w.exc, config)
                      ELSE Ok(Replace(config, parent, w.val))

\* The body of the loop for one entry of env_mappings: config afterwards.
OverrideOne(config, env, env_var, config_path) ==
    IF ~IsSet(env, env_var) THEN Ok(config)
    ELSE LET parent == SubSeq(config_path, 1, Len(config_path) - 1)
             current == Navigate(config, parent)
         IN IF current.exc # "None" THEN Raise(current.exc, config)
            ELSE LET env_value == ConvertEnvValue(env[env_var])
                 IN IF env_value.exc # "None" THEN Raise(env_value.exc, config)
                    ELSE LET w == SetItem(current.val, config_path[Len(config_path)],
                                          env_value.val)
                         IN IF w.exc # "None" THEN Raise(w.exc, config)
                            ELSE Ok(Replace(config, parent, w.val))

RECURSIVE OverrideFrom(_, _, _)
OverrideFrom(config, env, i) ==
    IF i > Len(env_mappings) THEN Ok(config)
    ELSE LET r == OverrideOne(config, env, env_mappings[i][1], env_mappings[i][2])
         IN IF r.exc # "None" THEN r ELSE OverrideFrom(r.val, env, i + 1)

\* Mutant: the loop runs over os.environ and looks every name up in
\* env_mappings, a name without an entry is a KeyError.
OverrideFromEnviron(config, env) ==
    IF \E name \in DOMAIN env : \A i \in 1..Len(env_mappings) : env_mappings[i][1] # name
    THEN Raise("KeyError", config)
    ELSE OverrideFrom(config, env, 1)

\* config after _override_with_env_vars(config), or the exception it raised
_override_with_env_vars(config, env) == OverrideFrom(config, env, 1)

---------------------------------------------------------------------------
(* ConfigManager._load_config *)

\* What an existing <env>.yaml holds: text yaml.safe_load rejects, or the
\* value it returns.
Malformed == [PyNone EXCEPT !.t = "YAMLError"]

\* Mutant: os.getenv("TEST_ENV") or "staging", an empty TEST_ENV selects staging.
ActiveEnvOrStaging(env) ==
    IF IsSet(env, "TEST_ENV") /\ env["TEST_ENV"] # <<>> THEN env["TEST_ENV"] ELSE <<"staging">>

\* os.getenv("TEST_ENV", "staging")
ActiveEnv(env) == IF IsSet(env, "TEST_ENV") THEN env["TEST_ENV"] ELSE <<"staging">>

\* env_config_file.exists()
Exists(fs, name) == name \in DOMAIN fs

\* yaml.safe_load(f) or {}
SafeLoadOrEmpty(content) ==
    IF content = Malformed THEN Raise("YAMLError", content)
    ELSE Ok(IF Truthy(content) THEN content ELSE EmptyDict)

\* default_config after the file of the active environment was merged
MergeEnvFile(config, env, fs) ==
    IF ~Exists(fs, ActiveEnv(env)) THEN Ok(config)
    ELSE LET env_config == SafeLoadOrEmpty(fs[ActiveEnv(env)])
         IN IF env_config.exc # "None" THEN Raise(env_config.exc, config)
            ELSE IF ~IsDict(env_config.val)
                 THEN Raise("AttributeError", config)    \* override_config.items()
                 ELSE Ok(_merge_config(config, env_config.val))

\* Mutant: the environment variables are applied before the file is merged.
LoadEnvBeforeFile(env, fs) ==
    LET overridden == _override_with_env_vars(default_config, env)
    IN IF overridden.exc # "None" THEN overridden
       ELSE MergeEnvFile(overridden.val, env, fs)

\* _load_config(): the tree it assigns to self._config, or the exception it
\* raised before the assignment
_load_config(env, fs) ==
    LET merged == MergeEnvFile(default_config, env, fs)
    IN IF merged.exc # "None" THEN merged
       ELSE _override_with_env_vars(merged.val, env)

---------------------------------------------------------------------------
(* ConfigManager.get and ConfigManager.set *)

\* for k in keys: value = value[k]
RECURSIVE Walk(_, _)
Walk(value, keys) ==
    IF Len(keys) = 0 THEN Ok(value)
    ELSE LET r == GetItem(value, Head(keys))
         IN IF r.exc # "None" THEN r ELSE Walk(r.val, Tail(keys))

\* The exceptions get() catches.
GetCaught == {"KeyError", "TypeError"}

\* Mutant: `except KeyError:`, the TypeError of indexing a non-mapping escapes.
GetCatchingKeyError(config, key, default) ==
    LET r == Walk(config, Split(key))
    IN IF r.exc = "None" THEN r
       ELSE IF r.exc = "KeyError" THEN Ok(default)
            ELSE r

\* get(key, default) on the tree config: what it returns or raises
get(config, key, default) ==
    LET r == Walk(config, Split(key))
    IN IF r.exc = "None" THEN r
       ELSE IF r.exc \in GetCaught THEN Ok(default)
            ELSE r

RECURSIVE SetWalk(_, _, _)

\* Mutant: no level is created, a missing intermediate key is a KeyError.
SetWalkNoCreate(current, keys, value) ==
    IF Len(keys) = 1 THEN SetItem(current, keys[1], value)
    ELSE LET child == GetItem(current, Head(keys))
         IN IF child.exc # "None" THEN Raise(child.exc, current)
            ELSE LET rest == SetWalk(child.val, Tail(keys), value)
                 IN [exc |-> rest.exc,
                     val |-> SetItem(current, Head(keys), rest.val).val]

\* Mutant: `current[k] = {}` without the test `if k not in current`.
SetWalkAlwaysCreate(current, keys, value) ==
    IF Len(keys) = 1 THEN SetItem(current, keys[1], value)
    ELSE LET made == SetItem(current, Head(keys), EmptyDict)
         IN IF made.exc # "None" THEN made
            ELSE LET rest == SetWalk(EmptyDict, Tail(keys), value)
                 IN [exc |-> rest.exc,
                     val |-> SetItem(made.val, Head(keys), rest.val).val]

\* One level of set()'s walk: `if k not in current: current[k] = {}`,
\* `current = current[k]`, then the rest of the walk in that object; val is
\* current afterwards.
SetWalk(current, keys, value) ==
    IF Len(keys) = 1 THEN SetItem(current, keys[1], value)
    ELSE LET k == Head(keys)
             has == Contains(current, k)
         IN IF has.exc # "None" THEN Raise(has.exc, current)
            ELSE LET made == IF has.val THEN Ok(current) ELSE SetItem(current, k, EmptyDict)
                 IN IF made.exc # "None" THEN made
                    ELSE LET child == GetItem(made.val, k)
                         IN IF child.exc # "None" THEN Raise(child.exc, made.val)
                            ELSE LET rest == SetWalk(child.val, Tail(keys), value)
                                 IN [exc |-> rest.exc,
                                     val |-> SetItem(made.val, k, rest.val).val]

\* set(key, value) on the tree config: the tree afterwards and what it raised
set(config, key, value) == SetWalk(config, Split(key), value)

---------------------------------------------------------------------------
(* Inputs *)

\* How many recognized variables the environment of a load sets at once.
MaxEnvVars == 1

\* How many set() calls are made on a loaded tree.
MaxSets == 2

\* The dicts with keys among `keys` and values among `values`.
DictsOver(keys, values) ==
    {PyDict(f) : f \in UNION {[S -> values] : S \in SUBSET keys}}

\* The dicts of DictsOver with at most one key.
SmallDictsOver(keys, values) ==
    {EmptyDict} \cup {PyDict(k :> x) : k \in keys, x \in values}

NoEnv == [n \in {} |-> <<>>]
NoFiles == [n \in {} |-> PyNone]

RecognizedVars == {env_mappings[i][1] : i \in 1..Len(env_mappings)}

\* The str a recognized variable may hold: "", "False", "45", "-5" and
\* SUPERSCRIPT TWO.
EnvValues ==
    {<<>>, <<"F", "a", "l", "s", "e">>, <<"4", "5">>, <<"-", "5">>, <<"U+00B2">>}

\* The settings of the recognized variables: at most MaxEnvVars of them set.
RecognizedEnvs ==
    UNION {[S -> EnvValues] : S \in {T \in SUBSET RecognizedVars : Cardinality(T) <= MaxEnvVars}}

\* What a file gives a setting, and what it gives a section.
FileSettingValues == {Lit("from-file"), PyNone, PyDict(K("width") :> PyInt(800))}
FileSectionValues ==
    {PyNone, Lit("off")}
        \cup SmallDictsOver({K("base_url"), K("window_size")}, FileSettingValues)

\* What <env>.yaml may hold: nothing or a comment (None), a scalar, a mapping
\* of at most one section, or text that is no YAML.
FileContents ==
    {PyNone, Lit("just text"), Malformed}
        \cup SmallDictsOver({K("web"), K("custom")}, FileSectionValues)

OtherFile == PyDict(K("web") :> PyDict(K("base_url") :> Lit("from-other-file")))

\* What production.yaml may hold when production is the active environment.
ProductionContents ==
    {PyDict(K("web") :> Lit("off"))}
        \cup {PyDict(K("web") :> PyDict(K("base_url") :> x)) : x \in FileSettingValues}

\* TEST_ENV unset with any staging.yaml, or TEST_ENV=production with a
\* production.yaml; the file of the other environment exists too.
LoadWorlds ==
    {[env |-> NoEnv, fs |-> K("production") :> OtherFile]}
        \cup {[env |-> NoEnv, fs |-> K("staging") :> c @@ K("production") :> OtherFile] :
                 c \in FileContents}
        \cup {[env |-> "TEST_ENV" :> K("production"), fs |-> K("staging") :> OtherFile]}
        \cup {[env |-> "TEST_ENV" :> K("production"),
               fs |-> K("production") :> c @@ K("staging") :> OtherFile] :
                 c \in ProductionContents}

\* The worlds of the life-cycle specification: API_TIMEOUT unset or "45"; no
\* staging.yaml, one that sets web.base_url to null, one that replaces the
\* section web by a scalar.
SpecEnvs == {NoEnv, "API_TIMEOUT" :> <<"4", "5">>}
SpecFiles ==
    {NoFiles,
     K("staging") :> PyDict(K("web") :> PyDict(K("base_url") :> PyNone)),
     K("staging") :> PyDict(K("web") :> Lit("off"))}

\* The keys set() is called with: "custom.key", "web.base_url",
\* "web.base_url.x", "a.b.c", "browser".
SetKeys ==
    {<<"custom", ".", "key">>, <<"web", ".", "base_url">>,
     <<"web", ".", "base_url", ".", "x">>, <<"a", ".", "b", ".", "c">>, <<"browser">>}
SetValues == {PyInt(7), PyNone}

\* The keys get() is called with: those of set() and "nonexistent.path",
\* "web", "a.b", "api.timeout", "browser.name.", "".
GetKeys ==
    SetKeys \cup
    {<<"nonexistent", ".", "path">>, <<"web">>, <<"a", ".", "b">>,
     <<"api", ".", "timeout">>, <<"browser", ".", "name", ".">>, <<>>}
GetDefaults == {Lit("fallback"), PyNone}

NoCall == [op |-> "none", key |-> <<>>, arg |-> PyNone, exc |-> "None", ret |-> PyNone,
           pre |-> PyNone]

\* Before the construction.
NoInitial == [environ |-> NoEnv, files |-> NoFiles, tree |-> PyNone]

\* The parts of the state a specification leaves out stay blank.
NoMerge == base_config = PyNone /\ override_config = PyNone
NoThreads ==
    getters = <<>> /\ setters = <<>> /\ heap = <<>> /\ loader = <<>> /\ instances = <<>>
NoCalculator == history = <<>> /\ log = <<>> /\ outcome = <<>>
NoTools == client = <<>> /\ wdm = <<>> /\ runner = <<>> /\ items = <<>>

---------------------------------------------------------------------------
(* Operations on the manager *)

\* ConfigManager(): self._config = None, then _load_config()
Construct ==
    /\ call.op = "none"
    /\ LET r == _load_config(environ, files)
       IN /\ _config' = IF r.exc = "None" THEN r.val ELSE PyNone
          /\ call' = [op |-> "__init__", key |-> <<>>, arg |-> PyNone, exc |-> r.exc,
                      ret |-> PyNone, pre |-> PyNone]
    /\ initial' = [environ |-> environ, files |-> files, tree |-> _config']
    /\ UNCHANGED <<environ, files, sets, mergeVars, threadVars, calcVars, toolVars>>

\* config_manager.get(key, default)
Get ==
    /\ _config # PyNone
    /\ \E key \in GetKeys, default \in GetDefaults :
          LET r == get(_config, key, default)
          IN call' = [op |-> "get", key |-> key, arg |-> default, exc |-> r.exc,
                      ret |-> r.val, pre |-> _config]
    /\ UNCHANGED <<environ, files, _config, sets, initial, mergeVars, threadVars, calcVars, toolVars>>

\* config_manager.set(key, value)
Set ==
    /\ _config # PyNone
    /\ sets < MaxSets
    /\ \E key \in SetKeys, value \in SetValues :
          LET r == set(_config, key, value)
          IN /\ _config' = r.val
             /\ call' = [op |-> "set", key |-> key, arg |-> value, exc |-> r.exc,
                         ret |-> PyNone, pre |-> _config]
    /\ sets' = sets + 1
    /\ UNCHANGED <<environ, files, initial, mergeVars, threadVars, calcVars, toolVars>>

---------------------------------------------------------------------------
(* Specification: a manager is constructed, then read and written *)

Init ==
    /\ \E e \in SpecEnvs, fs \in SpecFiles :
          /\ environ = e
          /\ files = fs
    /\ _config = PyNone
    /\ call = NoCall
    /\ sets = 0
    /\ initial = NoInitial
    /\ NoMerge
    /\ NoThreads
    /\ NoCalculator
    /\ NoTools

Next == Construct \/ Get \/ Set

Spec == Init /\ [][Next]_vars

---------------------------------------------------------------------------
(* Load specification: every environment and file, one construction *)

LoadInit ==
    /\ \E w \in LoadWorlds, e \in RecognizedEnvs :
          /\ environ = e @@ w.env
          /\ files = w.fs
    /\ _config = PyNone
    /\ call = NoCall
    /\ sets = 0
    /\ initial = NoInitial
    /\ NoMerge
    /\ NoThreads
    /\ NoCalculator
    /\ NoTools

LoadNext == Construct

LoadSpec == LoadInit /\ [][LoadNext]_vars

---------------------------------------------------------------------------
(* Vocabulary of the properties *)

\* A default no tree holds.
Missing == Lit("<default>")

\* The dotted key of a path: its keys joined by "."
RECURSIVE Dotted(_)
Dotted(path) ==
    IF Len(path) = 1 THEN path[1]
    ELSE path[1] \o <<".">> \o Dotted(Tail(path))

\* The paths of a tree: the key sequences that lead to a value.
RECURSIVE PathsOf(_)
PathsOf(x) ==
    IF IsDict(x)
    THEN UNION {{<<k>>} \cup {<<k>> \o p : p \in PathsOf(x.d[k])} : k \in Keys(x)}
    ELSE {}

\* A value that holds no further path.
IsLeaf(x) == ~IsDict(x) \/ Keys(x) = {}

\* The decoding the specification describes: "true"/"false" in any letter
\* case are booleans, decimal digits an integer, anything else the str.
SpecDecode(s) ==
    IF Lower(s) = <<"t", "r", "u", "e">> THEN PyBool(TRUE)
    ELSE IF Lower(s) = <<"f", "a", "l", "s", "e">> THEN PyBool(FALSE)
    ELSE IF Len(s) > 0 /\ \A i \in 1..Len(s) : IsDecimalChar(s[i])
         THEN PyInt(DecimalValue(s))
         ELSE PyStr(s)

Constructed == call.op = "__init__"
Loaded == call.op = "__init__" /\ call.exc = "None"

\* The mapping the file of the active environment contributes.
ActiveFileDoc ==
    IF /\ Exists(files, ActiveEnv(environ))
       /\ files[ActiveEnv(environ)] # Malformed
       /\ IsDict(files[ActiveEnv(environ)])
    THEN files[ActiveEnv(environ)]
    ELSE EmptyDict

\* The defaults with the file of the active environment merged in.
FileLayer == MergeEnvFile(default_config, environ, files)

\* The entries of env_mappings whose variable is set.
SetEntries == {i \in 1..Len(env_mappings) : env_mappings[i][1] \in DOMAIN environ}

\* What the most specific source gives path p: the variable (of one of
\* `entries`), else the file's mapping `doc`, else the default.
ExpectedAt(p, entries, doc) ==
    IF \E i \in entries : env_mappings[i][2] = p
    THEN Ok(SpecDecode(environ[env_mappings[CHOOSE i \in entries : env_mappings[i][2] = p][1]]))
    ELSE LET r == Walk(doc, p)
         IN IF r.exc = "None" THEN r ELSE Walk(default_config, p)

---------------------------------------------------------------------------
(* Properties of _load_config *)

\* C1: after a load that completed, get() of every path of the held tree that
\* leads to a leaf returns the value of the most specific source defining the
\* path: the recognized variable if set, else the file of the active
\* environment, else the default.
C1_Precedence ==
    Loaded =>
        LET entries == SetEntries
            doc == ActiveFileDoc
        IN \A p \in PathsOf(_config) :
               IsLeaf(Walk(_config, p).val) =>
                   get(_config, Dotted(p), Missing) = ExpectedAt(p, entries, doc)

\* C1 witness: a completed load where a set variable, the file and the default
\* all define web.base_url, and another default path is defined by the file alone.
C1_Witness ==
    /\ Loaded
    /\ "WEB_BASE_URL" \in DOMAIN environ
    /\ Walk(ActiveFileDoc, <<K("web"), K("base_url")>>).exc = "None"
    /\ get(_config, Dotted(<<K("web"), K("base_url")>>), Missing).val
           = SpecDecode(environ["WEB_BASE_URL"])

\* C2 as stated: after a load that completed the held tree has every section
\* of the defaults and, inside every section, every setting of the defaults.
C2_KeysSupersetEverywhere ==
    Loaded =>
        /\ Keys(default_config) \subseteq Keys(_config)
        /\ \A s \in Keys(default_config) :
              /\ IsDict(_config.d[s])
              /\ Keys(default_config.d[s]) \subseteq Keys(_config.d[s])

\* C2 amended: after a load that completed the held tree has every section of
\* the defaults, and every section that is still a mapping has every setting
\* of the defaults; a section the file sets to a non-mapping is replaced whole.
C2_KeysSuperset ==
    Loaded =>
        /\ Keys(default_config) \subseteq Keys(_config)
        /\ \A s \in Keys(default_config) :
              IF IsDict(_config.d[s])
              THEN Keys(default_config.d[s]) \subseteq Keys(_config.d[s])
              ELSE /\ s \in Keys(ActiveFileDoc)
                   /\ _config.d[s] = ActiveFileDoc.d[s]

\* C2 witness: a completed load whose file overrides one setting of section
\* web, the other settings of web being kept from the defaults.
C2_Witness ==
    /\ Loaded
    /\ K("web") \in Keys(ActiveFileDoc)
    /\ IsDict(ActiveFileDoc.d[K("web")])
    /\ Keys(ActiveFileDoc.d[K("web")]) = {K("base_url")}
    /\ Keys(_config.d[K("web")]) = Keys(default_config.d[K("web")])

\* C5 as stated: the conversion of a set variable never fails, and after a
\* load that completed get() of the variable's path returns the decoded value:
\* a boolean for "true"/"false" in any case, an integer for decimal digits,
\* the unchanged str for any other value.
C5_EnvValueDecoded ==
    Constructed =>
        /\ call.exc # "ValueError"
        /\ Loaded =>
              \A i \in SetEntries :
                  get(_config, Dotted(env_mappings[i][2]), Missing)
                      = Ok(SpecDecode(environ[env_mappings[i][1]]))

\* C6: after a load that completed, the path of every recognized variable
\* holds the variable's converted value if the variable is set (the empty str
\* for a variable set to the empty str), and what the file and the defaults
\* give it if the variable is not set.
C6_OverwrittenIffSet ==
    Loaded =>
        LET layer == FileLayer.val
        IN
        \A i \in 1..Len(env_mappings) :
            IF env_mappings[i][1] \in DOMAIN environ
            THEN get(_config, Dotted(env_mappings[i][2]), Missing)
                     = Ok(SpecDecode(environ[env_mappings[i][1]]))
            ELSE get(_config, Dotted(env_mappings[i][2]), Missing)
                     = get(layer, Dotted(env_mappings[i][2]), Missing)

\* C6 witness: a completed load with LOG_LEVEL set to the empty str and
\* logging.level holding the empty str.
C6_Witness ==
    /\ Loaded
    /\ "LOG_LEVEL" \in DOMAIN environ
    /\ environ["LOG_LEVEL"] = <<>>
    /\ get(_config, Dotted(<<K("logging"), K("level")>>), Missing) = Ok(PyStr(<<>>))

\* C7 as stated: when a recognized variable is set and the section of its path
\* is no mapping in the merged tree, the load raises and writes nothing; when
\* no file exists for the active environment every mapped path exists and the
\* load raises no error.
C7_NoIntermediateLevels ==
    Constructed =>
        /\ (/\ FileLayer.exc = "None"
            /\ \E i \in SetEntries : ~IsDict(FileLayer.val.d[env_mappings[i][2][1]]))
               => (call.exc # "None" /\ _config = PyNone)
        /\ ~Exists(files, ActiveEnv(environ))
               => /\ call.exc = "None"
                  /\ \A i \in 1..Len(env_mappings) :
                        Walk(_config, env_mappings[i][2]).exc = "None"

---------------------------------------------------------------------------
(* Merge specification: _merge_config on every pair of small trees *)

MergeKeys == {K("a"), K("b")}
MergeLeaves == {PyInt(1), Lit("s")}

\* The dicts of depth at most two over MergeKeys.
MergeTrees == DictsOver(MergeKeys, MergeLeaves \cup DictsOver(MergeKeys, MergeLeaves))

\* self._merge_config(base_config, override_config)
MergeCall ==
    /\ call.op = "none"
    /\ base_config' = _merge_config(base_config, override_config)
    /\ call' = [op |-> "_merge_config", key |-> <<>>, arg |-> override_config,
                exc |-> "None", ret |-> PyNone, pre |-> base_config]
    /\ UNCHANGED <<environ, files, _config, sets, initial, override_config, threadVars, calcVars, toolVars>>

MergeInit ==
    /\ base_config \in MergeTrees
    /\ override_config \in MergeTrees
    /\ environ = NoEnv
    /\ files = NoFiles
    /\ _config = PyNone
    /\ call = NoCall
    /\ sets = 0
    /\ initial = NoInitial
    /\ NoThreads
    /\ NoCalculator
    /\ NoTools

MergeNext == MergeCall

MergeSpec == MergeInit /\ [][MergeNext]_vars

Merged == call.op = "_merge_config"

\* Every key of D that O lacks is in R with D's value, and so on inside every
\* key at which D and O both hold a mapping.
RECURSIVE KeepsOwnKeys(_, _, _)
KeepsOwnKeys(D, O, R) ==
    /\ IsDict(R)
    /\ \A k \in Keys(D) :
          /\ k \notin Keys(O) => (k \in Keys(R) /\ R.d[k] = D.d[k])
          /\ (k \in Keys(O) /\ IsDict(D.d[k]) /\ IsDict(O.d[k]))
                => (k \in Keys(R) /\ KeepsOwnKeys(D.d[k], O.d[k], R.d[k]))

\* The reference merge: a key of O at which both hold a mapping gets their
\* merge, any other key of O gets O's value, any other key of D keeps D's.
RECURSIVE ReferenceMerge(_, _)
ReferenceMerge(D, O) ==
    PyDict([k \in Keys(D) \cup Keys(O) |->
               IF k \notin Keys(O) THEN D.d[k]
               ELSE IF k \in Keys(D) /\ IsDict(D.d[k]) /\ IsDict(O.d[k])
                    THEN ReferenceMerge(D.d[k], O.d[k])
                    ELSE O.d[k]])

\* C3: after _merge_config(D, O) every key of D that is no key of O, at the
\* top level and at every level the merge descends into, is still in D with
\* its value unchanged.
C3_MergeKeepsOwnKeys ==
    Merged => KeepsOwnKeys(call.pre, override_config, base_config)

\* C3 witness: a merge where D and O both hold a mapping at "a", D has "b" at
\* both levels and O has "b" at neither.
C3_Witness ==
    /\ Merged
    /\ Keys(call.pre) = MergeKeys
    /\ Keys(override_config) = {K("a")}
    /\ IsDict(call.pre.d[K("a")])
    /\ IsDict(override_config.d[K("a")])
    /\ Keys(call.pre.d[K("a")]) = MergeKeys
    /\ Keys(override_config.d[K("a")]) = {K("a")}
    /\ base_config.d[K("a")].d[K("b")] = call.pre.d[K("a")].d[K("b")]

\* C4: _merge_config(base, override) leaves in base the reference recursive
\* merge: at a key of override where both hold a mapping the merge of the two,
\* at any other key of override exactly override's value whatever the kinds of
\* the two values.
C4_MergeIsReferenceMerge ==
    Merged => base_config = ReferenceMerge(call.pre, override_config)

\* C4 witness: a merge that descends at "a" (both mappings) and at "b" puts
\* override's scalar in the place of base's mapping.
C4_Witness ==
    /\ Merged
    /\ Keys(call.pre) = MergeKeys
    /\ Keys(override_config) = MergeKeys
    /\ IsDict(call.pre.d[K("a")])
    /\ IsDict(override_config.d[K("a")])
    /\ Keys(override_config.d[K("a")]) # {}
    /\ IsDict(call.pre.d[K("b")])
    /\ ~IsDict(override_config.d[K("b")])
    /\ base_config.d[K("b")] = override_config.d[K("b")]

---------------------------------------------------------------------------
(* Properties of get and set *)

\* Every segment resolves through mappings: each is a key of the mapping the
\* segments before it lead to.
RECURSIVE Resolves(_, _)
Resolves(tree, segments) ==
    \/ Len(segments) = 0
    \/ /\ IsDict(tree)
       /\ Head(segments) \in Keys(tree)
       /\ Resolves(tree.d[Head(segments)], Tail(segments))

\* The value stored at segments that resolve.
RECURSIVE StoredAt(_, _)
StoredAt(tree, segments) ==
    IF Len(segments) = 0 THEN tree
    ELSE StoredAt(tree.d[Head(segments)], Tail(segments))

\* Every intermediate segment is absent or holds a mapping.
RECURSIVE Settable(_, _)
Settable(tree, segments) ==
    /\ IsDict(tree)
    /\ \/ Len(segments) = 1
       \/ Head(segments) \notin Keys(tree)
       \/ Settable(tree.d[Head(segments)], Tail(segments))

IsPrefix(p, q) == Len(p) <= Len(q) /\ SubSeq(q, 1, Len(p)) = p

\* Neither the same path, nor a prefix, nor an extension.
Unrelated(p, q) == ~IsPrefix(p, q) /\ ~IsPrefix(q, p)

\* What get(key, default) is to return on tree.
Lookup(tree, key, default) ==
    IF Resolves(tree, Split(key)) THEN StoredAt(tree, Split(key)) ELSE default

\* C8: in every loaded state get() raises for no key and no default: it
\* returns the stored value when every segment resolves through mappings and
\* the caller's default when a segment is missing or a non-mapping is indexed.
C8_GetNeverRaises ==
    /\ _config # PyNone =>
          \A key \in GetKeys, default \in GetDefaults :
              get(_config, key, default) = Ok(Lookup(_config, key, default))
    /\ call.op = "get" =>
          /\ call.exc = "None"
          /\ call.ret = Lookup(call.pre, call.key, call.arg)

\* C8 witness: get("web.base_url.x", "fallback") indexed the str at
\* web.base_url and returned "fallback".
C8_Witness ==
    /\ call.op = "get"
    /\ call.key = <<"web", ".", "base_url", ".", "x">>
    /\ Resolves(call.pre, <<K("web"), K("base_url")>>)
    /\ StoredAt(call.pre, <<K("web"), K("base_url")>>).t = "str"
    /\ call.arg = Lit("fallback")
    /\ call.ret = Lit("fallback")

\* C9 as stated: set() succeeds for every key, also through a scalar: it
\* raises nothing and the value is stored at the key.
C9_SetAlwaysSucceeds ==
    call.op = "set" =>
        /\ call.exc = "None"
        /\ get(_config, call.key, Missing) = Ok(call.arg)

\* C9 amended: set() succeeds exactly when every intermediate segment of the
\* key is absent or holds a mapping: it then creates the missing levels and
\* assigns the final segment; when an intermediate segment holds a non-mapping
\* it raises TypeError and leaves the tree unchanged.
C9_SetSucceedsThroughMappings ==
    call.op = "set" =>
        IF Settable(call.pre, Split(call.key))
        THEN /\ call.exc = "None"
             /\ Resolves(_config, Split(call.key))
             /\ StoredAt(_config, Split(call.key)) = call.arg
        ELSE /\ call.exc = "TypeError"
             /\ _config = call.pre

\* C9 witness: set("a.b.c", 7) on a tree without "a" created both levels.
C9_Witness ==
    /\ call.op = "set"
    /\ call.key = <<"a", ".", "b", ".", "c">>
    /\ K("a") \notin Keys(call.pre)
    /\ call.exc = "None"
    /\ StoredAt(_config, <<K("a"), K("b"), K("c")>>) = PyInt(7)

\* The keys a set() is observed through: the keys of GetKeys and the dotted
\* keys of every path of the tree before and after.
ProbeKeys(before, after) ==
    GetKeys \cup {Dotted(p) : p \in PathsOf(before) \cup PathsOf(after)}

\* C10: for a key whose intermediate segments are absent or mappings, get(k)
\* after set(k, v) returns v, and get() of every key that is neither k, nor a
\* prefix of k, nor an extension of k returns what it returned before.
C10_SetGetRoundTrip ==
    (call.op = "set" /\ Settable(call.pre, Split(call.key))) =>
        /\ call.exc = "None"
        /\ get(_config, call.key, Missing) = Ok(call.arg)
        /\ \A key \in ProbeKeys(call.pre, _config) :
              Unrelated(Split(key), Split(call.key)) =>
                  get(_config, key, Missing) = get(call.pre, key, Missing)

\* C10 witness: set("custom.key", 7) created the section custom, get returns
\* 7 and the sections of the tree before are as they were.
C10_Witness ==
    /\ call.op = "set"
    /\ call.key = <<"custom", ".", "key">>
    /\ call.arg = PyInt(7)
    /\ K("custom") \notin Keys(call.pre)
    /\ get(_config, <<"custom", ".", "key">>, Missing) = Ok(PyInt(7))
    /\ \A s \in Keys(call.pre) : _config.d[s] = call.pre.d[s]

---------------------------------------------------------------------------
(* The other operations of the manager *)

\* get_config(): the held tree itself
get_config(config) == Ok(config)

\* Mutant: reload merges the file and the environment into the held tree.
ReloadIntoHeld(config, env, fs) ==
    LET merged == MergeEnvFile(config, env, fs)
        loaded == IF merged.exc # "None" THEN merged
                  ELSE _override_with_env_vars(merged.val, env)
    IN IF loaded.exc = "None" THEN loaded ELSE Raise(loaded.exc, config)

\* Mutant: self._config is assigned the merged tree before the environment
\* variables are applied to it.
ReloadAssigningFirst(config, env, fs) ==
    LET merged == MergeEnvFile(default_config, env, fs)
    IN IF merged.exc # "None" THEN Raise(merged.exc, config)
       ELSE LET loaded == _override_with_env_vars(merged.val, env)
            IN IF loaded.exc = "None" THEN loaded ELSE Raise(loaded.exc, merged.val)

\* reload_config() on a manager holding config: the tree it holds afterwards
\* and what was raised (self._config is assigned by a load that completed)
reload_config(config, env, fs) ==
    LET loaded == _load_config(env, fs)
    IN IF loaded.exc = "None" THEN loaded ELSE Raise(loaded.exc, config)

\* The default name of save_config: f"{env}_current.yaml"
CurrentName(env) == ActiveEnv(env) \o <<"_current">>

\* save_config(filename): the files afterwards.  A file holds the document
\* safe_load reads from it, so dumping a tree leaves the tree in the file.
save_config(config, env, fs, filename) ==
    LET name == IF filename = PyNone THEN CurrentName(env) ELSE filename.s
    IN (name :> config) @@ fs

\* get_environment_config(env)
get_environment_config(fs, env) ==
    IF Exists(fs, env) THEN SafeLoadOrEmpty(fs[env]) ELSE Ok(EmptyDict)

\* create_environment_config(env, config): the files afterwards
create_environment_config(fs, env, config) == (env :> config) @@ fs

required_keys ==
    << <<"web", ".", "base_url">>, <<"api", ".", "base_url">>, <<"browser", ".", "name">> >>

RECURSIVE ValidateFrom(_, _)

\* Mutant: only the first required key is looked at.
ValidateFirstKey(config, i) ==
    IF i > 1 THEN Ok(PyBool(TRUE))
    ELSE LET value == get(config, required_keys[i], PyNone)
         IN IF value.exc # "None" THEN value
            ELSE IF value.val = PyNone THEN Raise("ValueError", PyStr(required_keys[i]))
                 ELSE ValidateFrom(config, i + 1)

\* validate_config's loop from the i-th required key on
ValidateFrom(config, i) ==
    IF i > Len(required_keys) THEN Ok(PyBool(TRUE))
    ELSE LET value == get(config, required_keys[i], PyNone)
         IN IF value.exc # "None" THEN value
            ELSE IF value.val = PyNone THEN Raise("ValueError", PyStr(required_keys[i]))
                 ELSE ValidateFrom(config, i + 1)

\* validate_config()
validate_config(config) == ValidateFrom(config, 1)

---------------------------------------------------------------------------
(* Life-cycle specification: a manager is constructed, written, saved,     *)
(* validated and reloaded while environment files are created              *)

\* set() is called with ("web.base_url", None), ("custom.key", 7) and
\* ("browser", None).
LifeSets ==
    {[key |-> <<"web", ".", "base_url">>, value |-> PyNone],
     [key |-> <<"custom", ".", "key">>, value |-> PyInt(7)],
     [key |-> <<"browser">>, value |-> PyNone]}

\* get() is called with "web.base_url" and "custom.key", no default.
LifeGetKeys == {<<"web", ".", "base_url">>, <<"custom", ".", "key">>}

\* The environments files are created and read for.
LifeEnvNames == {K("staging"), K("production")}

\* What create_environment_config is given for staging.yaml.
CreatedConfig == PyDict(K("api") :> PyDict(K("base_url") :> PyNone))

\* save_config is called without a filename.
SaveNames == {PyNone}

\* The worlds a life cycle starts in: nothing set and no file; a
\* staging.yaml that replaces the section web by a scalar; API_TIMEOUT=45 and
\* a staging.yaml that sets web.base_url to null.
LifeWorlds ==
    {[env |-> NoEnv, fs |-> NoFiles],
     [env |-> NoEnv, fs |-> K("staging") :> PyDict(K("web") :> Lit("off"))],
     [env |-> "API_TIMEOUT" :> <<"4", "5">>,
      fs |-> K("staging") :> PyDict(K("web") :> PyDict(K("base_url") :> PyNone))]}

Held == _config # PyNone

\* config_manager.reload_config()
Reload ==
    /\ Held
    /\ LET r == reload_config(_config, environ, files)
       IN /\ _config' = r.val
          /\ call' = [op |-> "reload_config", key |-> <<>>, arg |-> PyNone, exc |-> r.exc,
                      ret |-> PyNone, pre |-> _config]
          /\ sets' = IF r.exc = "None" THEN 0 ELSE sets
    /\ UNCHANGED <<environ, files, initial, mergeVars, threadVars, calcVars, toolVars>>

\* config_manager.set(key, value)
LifeSet ==
    /\ Held
    /\ sets < MaxSets
    /\ \E a \in LifeSets :
          LET r == set(_config, a.key, a.value)
          IN /\ _config' = r.val
             /\ call' = [op |-> "set", key |-> a.key, arg |-> a.value, exc |-> r.exc,
                         ret |-> PyNone, pre |-> _config]
    /\ sets' = sets + 1
    /\ UNCHANGED <<environ, files, initial, mergeVars, threadVars, calcVars, toolVars>>

\* config_manager.get(key)
LifeGet ==
    /\ Held
    /\ \E key \in LifeGetKeys :
          LET r == get(_config, key, PyNone)
          IN call' = [op |-> "get", key |-> key, arg |-> PyNone, exc |-> r.exc,
                      ret |-> r.val, pre |-> _config]
    /\ UNCHANGED <<environ, files, _config, sets, initial, mergeVars, threadVars, calcVars, toolVars>>

\* config_manager.get_config()
GetConfig ==
    /\ Held
    /\ LET r == get_config(_config)
       IN call' = [op |-> "get_config", key |-> <<>>, arg |-> PyNone, exc |-> r.exc,
                   ret |-> r.val, pre |-> _config]
    /\ UNCHANGED <<environ, files, _config, sets, initial, mergeVars, threadVars, calcVars, toolVars>>

\* config_manager.validate_config()
Validate ==
    /\ Held
    /\ LET r == validate_config(_config)
       IN call' = [op |-> "validate_config", key |-> <<>>, arg |-> PyNone, exc |-> r.exc,
                   ret |-> IF r.exc = "None" THEN r.val ELSE PyNone, pre |-> _config]
    /\ UNCHANGED <<environ, files, _config, sets, initial, mergeVars, threadVars, calcVars, toolVars>>

\* Mutant: get_environment_config merges the file it read into the held tree.
GetEnvironmentConfigMerging ==
    /\ Held
    /\ \E env \in LifeEnvNames :
          LET r == get_environment_config(files, env)
          IN /\ call' = [op |-> "get_environment_config", key |-> env, arg |-> PyNone,
                         exc |-> r.exc, ret |-> IF r.exc = "None" THEN r.val ELSE PyNone,
                         pre |-> _config]
             /\ _config' = IF r.exc = "None" /\ IsDict(r.val)
                           THEN _merge_config(_config, r.val) ELSE _config
    /\ UNCHANGED <<environ, files, sets, initial, mergeVars, threadVars, calcVars, toolVars>>

\* config_manager.get_environment_config(env)
GetEnvironmentConfig ==
    /\ Held
    /\ \E env \in LifeEnvNames :
          LET r == get_environment_config(files, env)
          IN call' = [op |-> "get_environment_config", key |-> env, arg |-> PyNone,
                      exc |-> r.exc, ret |-> IF r.exc = "None" THEN r.val ELSE PyNone,
                      pre |-> _config]
    /\ UNCHANGED <<environ, files, _config, sets, initial, mergeVars, threadVars, calcVars, toolVars>>

\* config_manager.save_config(filename)
SaveConfig ==
    /\ Held
    /\ \E filename \in SaveNames :
          /\ files' = save_config(_config, environ, files, filename)
          /\ call' = [op |-> "save_config", key |-> <<>>, arg |-> filename, exc |-> "None",
                      ret |-> PyNone, pre |-> _config]
    /\ UNCHANGED <<environ, _config, sets, initial, mergeVars, threadVars, calcVars, toolVars>>

\* config_manager.create_environment_config("staging", config)
CreateEnvironmentConfig ==
    /\ Held
    /\ files' = create_environment_config(files, K("staging"), CreatedConfig)
    /\ call' = [op |-> "create_environment_config", key |-> K("staging"),
                arg |-> CreatedConfig, exc |-> "None", ret |-> PyNone, pre |-> _config]
    /\ UNCHANGED <<environ, _config, sets, initial, mergeVars, threadVars, calcVars, toolVars>>

LifeInit ==
    /\ \E w \in LifeWorlds :
          /\ environ = w.env
          /\ files = w.fs
    /\ _config = PyNone
    /\ call = NoCall
    /\ sets = 0
    /\ initial = NoInitial
    /\ NoMerge
    /\ NoThreads
    /\ NoCalculator
    /\ NoTools

LifeNext ==
    \/ Construct
    \/ Reload
    \/ LifeSet
    \/ LifeGet
    \/ GetConfig
    \/ Validate
    \/ GetEnvironmentConfig
    \/ SaveConfig
    \/ CreateEnvironmentConfig

LifeSpec == LifeInit /\ [][LifeNext]_vars

---------------------------------------------------------------------------
(* Properties of the life cycle *)

\* The file of the active environment, if there is one.
ActiveFile(env, fs) ==
    LET name == IF "TEST_ENV" \in DOMAIN env THEN env["TEST_ENV"] ELSE K("staging")
    IN IF name \in DOMAIN fs THEN <<fs[name]>> ELSE <<>>

\* Since the construction neither the environment nor the file of the active
\* environment changed.
WorldUnchanged ==
    /\ environ = initial.environ
    /\ ActiveFile(environ, files) = ActiveFile(initial.environ, initial.files)

Reloaded == call.op = "reload_config" /\ call.exc = "None"

\* C11: after any Set calls, a successful Reload with the override file and
\* the environment variables as they were at construction leaves the manager
\* holding the tree the construction loaded.
C11_ReloadRestoresLoad ==
    (Reloaded /\ WorldUnchanged) => _config = initial.tree

\* A Reload with an unchanged world after Set calls changed the held tree.
C11_Witness ==
    /\ Reloaded
    /\ WorldUnchanged
    /\ call.pre # initial.tree
    /\ Resolves(call.pre, <<K("custom"), K("key")>>)
    /\ ~Resolves(_config, <<K("custom"), K("key")>>)

Validated == call.op = "validate_config"

\* section.setting is there and holds None.
NullAt(tree, section, setting) ==
    /\ Resolves(tree, <<section, setting>>)
    /\ StoredAt(tree, <<section, setting>>) = PyNone

\* section.setting is not there, or holds None.
Unset(tree, section, setting) ==
    Resolves(tree, <<section, setting>>) => StoredAt(tree, <<section, setting>>) = PyNone

\* C15 as the specification states it: validate_config raises when
\* web.base_url is null and returns True in every other state of the tree.
C15_RaisesIffWebBaseUrlNull ==
    Validated =>
        IF NullAt(call.pre, K("web"), K("base_url"))
        THEN call.exc = "ValueError"
        ELSE call.exc = "None" /\ call.ret = PyBool(TRUE)

\* C15 (amended): validate_config raises ValueError when web.base_url,
\* api.base_url or browser.name is null or cannot be reached in the held
\* tree, and returns True in every other state.
C15_RaisesIffRequiredUnset ==
    Validated =>
        IF \/ Unset(call.pre, K("web"), K("base_url"))
           \/ Unset(call.pre, K("api"), K("base_url"))
           \/ Unset(call.pre, K("browser"), K("name"))
        THEN call.exc = "ValueError"
        ELSE call.exc = "None" /\ call.ret = PyBool(TRUE)

\* validate_config raised although web.base_url holds a value: browser is
\* None, so browser.name cannot be reached.
C15_Witness ==
    /\ Validated
    /\ call.exc = "ValueError"
    /\ ~Unset(_config, K("web"), K("base_url"))
    /\ ~Unset(_config, K("api"), K("base_url"))
    /\ ~Resolves(_config, <<K("browser"), K("name")>>)

\* The operations that only read the manager or write a file.
ReadingOps ==
    {"get", "get_config", "validate_config", "get_environment_config", "save_config",
     "create_environment_config"}

\* C16: the held tree changes only in set and reload_config (after the
\* construction): get, get_config, validate_config, get_environment_config,
\* save_config and create_environment_config leave it as it was, and
\* create_environment_config changes nothing but the file it names.
C16_TreeChangesOnlyInSetAndReload ==
    [][/\ call'.op \in ReadingOps => _config' = _config
       /\ _config' # _config => call'.op \in {"__init__", "set", "reload_config"}
       /\ call'.op = "create_environment_config" =>
             /\ environ' = environ
             /\ DOMAIN files' = DOMAIN files \cup {call'.key}
             /\ \A name \in DOMAIN files \ {call'.key} : files'[name] = files[name]]_vars

\* create_environment_config wrote staging.yaml while the manager held a tree
\* that set() had changed, and the manager still holds that tree.
C16_Witness ==
    /\ call.op = "create_environment_config"
    /\ files[K("staging")] = CreatedConfig
    /\ initial.files # files
    /\ _config = call.pre
    /\ _config # initial.tree

---------------------------------------------------------------------------
(* Environment specification: every choice of TEST_ENV, of the files of     *)
(* several environments and of variables outside env_mappings, one          *)
(* construction                                                             *)

\* What <env>.yaml holds for the environment named env.
FileOf(env) == PyDict(K("web") :> PyDict(K("base_url") :> PyStr(<<"from-">> \o env)))

\* TEST_ENV is unset, empty, "production" (which may have a file) or "qa"
\* (which has none).
TestEnvValues == {<<>>, K("production"), K("qa")}
TestEnvs == {NoEnv} \cup {"TEST_ENV" :> v : v \in TestEnvValues}

\* The files of config_dir: staging.yaml (maybe no YAML), production.yaml
\* and .yaml, each there or not.
FileSets ==
    {staging @@ production @@ unnamed :
        staging \in {NoFiles, K("staging") :> FileOf(K("staging")), K("staging") :> Malformed},
        production \in {NoFiles, K("production") :> FileOf(K("production"))},
        unnamed \in {NoFiles, <<>> :> FileOf(<<>>)}}

\* Variables env_mappings has no entry for.
OtherVars == {"CUSTOM_VAR", "WEB_BASE_URL_2"}
OtherEnvs == UNION {[S -> {<<"4", "5">>}] : S \in SUBSET OtherVars}

\* The recognized variables: WEB_BASE_URL unset or "45", API_TIMEOUT unset,
\* "45" or SUPERSCRIPT TWO.
MappedEnvs ==
    {web @@ api :
        web \in {NoEnv, "WEB_BASE_URL" :> <<"4", "5">>},
        api \in {NoEnv, "API_TIMEOUT" :> <<"4", "5">>, "API_TIMEOUT" :> <<"U+00B2">>}}

EnvironInit ==
    /\ \E t \in TestEnvs, o \in OtherEnvs, m \in MappedEnvs, fs \in FileSets :
          /\ environ = t @@ o @@ m
          /\ files = fs
    /\ _config = PyNone
    /\ call = NoCall
    /\ sets = 0
    /\ initial = NoInitial
    /\ NoMerge
    /\ NoThreads
    /\ NoCalculator
    /\ NoTools

EnvironNext == Construct

EnvironSpec == EnvironInit /\ [][EnvironNext]_vars

---------------------------------------------------------------------------
(* Properties of the files and variables a load reads *)

\* C12 as the specification states it: a load that finds no file for the
\* active environment completes and holds the defaults with the set variables
\* written over them; a load that finds a file that is no YAML raises the
\* parser's error and holds no tree.
C12_AbsentLoadsMalformedRaises ==
    Constructed =>
        /\ ActiveFile(environ, files) = <<>> =>
              /\ call.exc = "None"
              /\ PathsOf(_config) = PathsOf(default_config)
              /\ LET entries == SetEntries
                 IN \A p \in PathsOf(_config) :
                        IsLeaf(Walk(_config, p).val) =>
                            get(_config, Dotted(p), Missing) = ExpectedAt(p, entries, EmptyDict)
        /\ ActiveFile(environ, files) = <<Malformed>> =>
              /\ call.exc = "YAMLError"
              /\ _config = PyNone

\* f restricted to the names in S.
Restrict(f, S) == [name \in DOMAIN f \cap S |-> f[name]]

\* The name of the active environment.
ActiveName == IF "TEST_ENV" \in DOMAIN environ THEN environ["TEST_ENV"] ELSE K("staging")

\* C13: the active environment is the value of TEST_ENV, or "staging" when
\* TEST_ENV is unset, and only <active>.yaml is read: the load ends as it
\* does when no other file exists, and without WEB_BASE_URL the held tree has
\* the active file's web.base_url, or the default when that file is absent.
C13_OnlyActiveFileMerged ==
    Constructed =>
        LET alone == _load_config(environ, Restrict(files, {ActiveName}))
        IN /\ call.exc = alone.exc
           /\ Loaded => _config = alone.val
           /\ (Loaded /\ "WEB_BASE_URL" \notin DOMAIN environ) =>
                 StoredAt(_config, <<K("web"), K("base_url")>>)
                    = IF ActiveName \in DOMAIN files
                      THEN PyStr(<<"from-">> \o ActiveName)
                      ELSE StoredAt(default_config, <<K("web"), K("base_url")>>)

\* TEST_ENV=production and staging.yaml, production.yaml and .yaml all exist:
\* the held tree has production.yaml's web.base_url.
C13_Witness ==
    /\ Loaded
    /\ ActiveName = K("production")
    /\ DOMAIN files = {K("staging"), K("production"), <<>>}
    /\ "WEB_BASE_URL" \notin DOMAIN environ
    /\ StoredAt(_config, <<K("web"), K("base_url")>>) = PyStr(<<"from-", "production">>)

\* C14: variables that are neither TEST_ENV nor in env_mappings are ignored:
\* the load ends as it does in the environment without them (the same tree,
\* or the same exception), so two environments that agree on TEST_ENV and on
\* the 14 recognized variables give the same tree, and a variable outside
\* the mapping raises nothing.
C14_OtherVariablesIgnored ==
    Constructed =>
        LET without == _load_config(Restrict(environ, RecognizedVars \cup {"TEST_ENV"}), files)
        IN /\ call.exc = without.exc
           /\ Loaded => _config = without.val
           /\ Loaded => Keys(_config) = Keys(default_config) \cup Keys(ActiveFileDoc)

\* A load completed with CUSTOM_VAR and WEB_BASE_URL_2 set beside a
\* recognized variable, which was applied.
C14_Witness ==
    /\ Loaded
    /\ OtherVars \subseteq DOMAIN environ
    /\ "API_TIMEOUT" \in DOMAIN environ
    /\ StoredAt(_config, <<K("api"), K("timeout")>>) = PyInt(45)

---------------------------------------------------------------------------
(* Threads inside get(): each statement of get() is a step of its thread   *)

\* How many threads call get() on the manager.
MaxThreads == 2

Threads == 1..MaxThreads

\* The frame of a thread that is not inside a call.
IdleFrame ==
    [pc |-> "idle", key |-> <<>>, default |-> PyNone, keys |-> <<>>, value |-> PyNone,
     exc |-> "None", ret |-> PyNone]

\* The keys the threads call get() with: "web.base_url", "web",
\* "web.base_url.x", "nonexistent.path".
ThreadGetKeys ==
    {<<"web", ".", "base_url">>, <<"web">>, <<"web", ".", "base_url", ".", "x">>,
     <<"nonexistent", ".", "path">>}
ThreadGetDefault == Lit("fallback")

\* keys = key.split('.'); value = self._config
GetEnter(frame, config, key, default) ==
    [IdleFrame EXCEPT !.pc = "loop", !.key = key, !.default = default,
                      !.keys = Split(key), !.value = config]

\* One turn of `for k in keys: value = value[k]`, the `return value` after
\* the last turn, or the `return default` of the except clause.
GetTurn(frame) ==
    IF Len(frame.keys) = 0 THEN [frame EXCEPT !.pc = "done", !.ret = frame.value]
    ELSE LET r == GetItem(frame.value, Head(frame.keys))
         IN IF r.exc = "None" THEN [frame EXCEPT !.keys = Tail(frame.keys), !.value = r.val]
            ELSE IF r.exc \in GetCaught THEN [frame EXCEPT !.pc = "done", !.ret = frame.default]
                 ELSE [frame EXCEPT !.pc = "done", !.exc = r.exc]

\* Thread t calls get(key, default).
GetCall(t) ==
    /\ getters[t].pc = "idle"
    /\ \E key \in ThreadGetKeys :
          getters' = [getters EXCEPT ![t] = GetEnter(@, _config, key, ThreadGetDefault)]
    /\ UNCHANGED <<environ, files, _config, call, sets, initial, mergeVars, setters, heap, loader, instances,
                   calcVars, toolVars>>

\* Mutant: the walk keeps its cursor in self._config instead of a local.
GetStepSharedCursor(t) ==
    /\ getters[t].pc = "loop"
    /\ LET frame == GetTurn([getters[t] EXCEPT !.value = _config])
       IN /\ getters' = [getters EXCEPT ![t] = frame]
          /\ _config' = IF frame.pc = "loop" THEN frame.value ELSE _config
    /\ UNCHANGED <<environ, files, call, sets, initial, mergeVars, setters, heap, loader,
                   instances, calcVars, toolVars>>

\* Thread t runs one turn of the loop of get().
GetStep(t) ==
    /\ getters[t].pc = "loop"
    /\ getters' = [getters EXCEPT ![t] = GetTurn(@)]
    /\ UNCHANGED <<environ, files, _config, call, sets, initial, mergeVars, setters, heap, loader, instances,
                   calcVars, toolVars>>

\* The caller of thread t has the result; the thread may call again.
GetReturn(t) ==
    /\ getters[t].pc = "done"
    /\ getters' = [getters EXCEPT ![t] = IdleFrame]
    /\ UNCHANGED <<environ, files, _config, call, sets, initial, mergeVars, setters, heap, loader, instances,
                   calcVars, toolVars>>

\* A manager constructed in one of the worlds of the life cycle, no thread
\* inside a call.
GetThreadsInit ==
    /\ \E w \in LifeWorlds :
          /\ environ = w.env
          /\ files = w.fs
          /\ _load_config(w.env, w.fs).exc = "None"
          /\ _config = _load_config(w.env, w.fs).val
    /\ call = NoCall
    /\ sets = 0
    /\ initial = [environ |-> environ, files |-> files, tree |-> _config]
    /\ getters = [t \in Threads |-> IdleFrame]
    /\ setters = <<>>
    /\ heap = <<>>
    /\ loader = <<>>
    /\ instances = <<>>
    /\ NoMerge
    /\ NoCalculator
    /\ NoTools

GetThreadsNext ==
    \E t \in Threads :
        \/ GetCall(t)
        \/ GetStep(t)
        \/ GetReturn(t)

GetThreadsSpec == GetThreadsInit /\ [][GetThreadsNext]_vars

\* C17: concurrent get() calls are safe: in every interleaving of the
\* statements of any number of get() calls, each call returns what it
\* returns when it runs alone on the held tree and raises nothing, and the
\* held tree stays as it was.
C17_ConcurrentGetsAgree ==
    /\ _config = initial.tree
    /\ \A t \in Threads :
          getters[t].pc = "done" =>
              /\ getters[t].exc = "None"
              /\ getters[t].ret = Lookup(_config, getters[t].key, getters[t].default)

\* One get() returned the stored web.base_url while another thread was in the
\* middle of its walk.
C17_Witness ==
    \E t, u \in Threads :
        /\ t # u
        /\ getters[t].pc = "done"
        /\ getters[t].key = <<"web", ".", "base_url">>
        /\ getters[t].ret # getters[t].default
        /\ getters[u].pc = "loop"
        /\ getters[u].value # _config

---------------------------------------------------------------------------
(* Threads inside set(): each statement of set() is a step of its thread.  *)
(* The dicts set() works on are objects with an identity: heap[i] is the   *)
(* content of object i, a value that is a dict object is a reference to    *)
(* it, and self._config is object 1.  A nested dict of the loaded tree     *)
(* becomes an object of the heap when a thread first reaches it.           *)

Ref(id) == [PyNone EXCEPT !.t = "ref", !.n = id]
IsRef(x) == x.t = "ref"

\* The object a local denotes, for the tests and look-ups on it.
Object(h, x) == IF IsRef(x) THEN PyDict(h[x.n]) ELSE x

\* The tree below x, all references followed.
RECURSIVE TreeOf(_, _)
TreeOf(h, x) ==
    IF IsRef(x) THEN PyDict([k \in DOMAIN h[x.n] |-> TreeOf(h, h[x.n][k])])
    ELSE x

\* The two threads that call set().
SetThreads == {"T1", "T2"}

\* The frame of a thread that is not inside a call; overlap records that
\* another thread was inside set() when this one entered.
IdleSetFrame ==
    [pc |-> "idle", key |-> <<>>, value |-> PyNone, keys |-> <<>>, current |-> PyNone,
     exc |-> "None", overlap |-> FALSE]

\* The calls of the threads: set("a.b", 1), set("a.c", 2), set("web.base_url", 7).
ThreadSets ==
    {[key |-> <<"a", ".", "b">>, value |-> PyInt(1)],
     [key |-> <<"a", ".", "c">>, value |-> PyInt(2)],
     [key |-> <<"web", ".", "base_url">>, value |-> PyInt(7)]}

\* Where the walk goes on with `keys` left.
WalkPc(keys) == IF Len(keys) > 1 THEN "test" ELSE "assign"

\* keys = key.split('.'); current = self._config
SetEnter(key, value, overlap) ==
    [IdleSetFrame EXCEPT !.pc = WalkPc(Split(key)), !.key = key, !.value = value,
                         !.keys = Split(key), !.current = Ref(1), !.overlap = overlap]

Raised(frame, h, e) == [frame |-> [frame EXCEPT !.pc = "done", !.exc = e], heap |-> h]

\* Mutant: `current[k] = {}` runs whether or not k is in current.
SetTurnAlwaysCreate(frame, h) ==
    LET k == Head(frame.keys)
        current == frame.current
    IN CASE frame.pc = "test" -> [frame |-> [frame EXCEPT !.pc = "create"], heap |-> h]
         [] frame.pc = "create" ->
              [frame |-> [frame EXCEPT !.pc = "descend"],
               heap |-> Append([h EXCEPT ![current.n] = (k :> Ref(Len(h) + 1)) @@ @],
                               EmptyMap)]
         [] frame.pc = "descend" ->
              [frame |-> [frame EXCEPT !.current = h[current.n][k],
                                       !.keys = Tail(frame.keys),
                                       !.pc = WalkPc(Tail(frame.keys))],
               heap |-> h]
         [] frame.pc = "assign" ->
              [frame |-> [frame EXCEPT !.pc = "done"],
               heap |-> [h EXCEPT ![current.n] = (k :> frame.value) @@ @]]

\* One statement of set() in the thread with this frame: the test
\* `k not in current`, `current[k] = {}`, `current = current[k]`, or the
\* final `current[keys[-1]] = value`; the frame and the heap afterwards.
SetTurn(frame, h) ==
    LET k == Head(frame.keys)
        current == frame.current
    IN CASE frame.pc = "test" ->
              LET has == Contains(Object(h, current), k)
              IN IF has.exc # "None" THEN Raised(frame, h, has.exc)
                 ELSE [frame |-> [frame EXCEPT !.pc = IF has.val THEN "descend" ELSE "create"],
                       heap |-> h]
         [] frame.pc = "create" ->
              IF ~IsRef(current) THEN Raised(frame, h, SetItem(current, k, EmptyDict).exc)
              ELSE [frame |-> [frame EXCEPT !.pc = "descend"],
                    heap |-> Append([h EXCEPT ![current.n] = (k :> Ref(Len(h) + 1)) @@ @],
                                    EmptyMap)]
         [] frame.pc = "descend" ->
              LET child == GetItem(Object(h, current), k)
                  next == [frame EXCEPT !.keys = Tail(frame.keys),
                                        !.pc = WalkPc(Tail(frame.keys))]
              IN IF child.exc # "None" THEN Raised(frame, h, child.exc)
                 ELSE IF IsDict(child.val)
                      THEN [frame |-> [next EXCEPT !.current = Ref(Len(h) + 1)],
                            heap |-> Append([h EXCEPT ![current.n][k] = Ref(Len(h) + 1)],
                                            child.val.d)]
                      ELSE [frame |-> [next EXCEPT !.current = child.val], heap |-> h]
         [] frame.pc = "assign" ->
              IF ~IsRef(current) THEN Raised(frame, h, SetItem(current, k, frame.value).exc)
              ELSE [frame |-> [frame EXCEPT !.pc = "done"],
                    heap |-> [h EXCEPT ![current.n] = (k :> frame.value) @@ @]]

Inside(frame) == frame.pc \notin {"idle", "done"}

\* Thread t calls set(key, value).
SetCall(t) ==
    /\ setters[t].pc = "idle"
    /\ \E a \in ThreadSets :
          setters' = [setters EXCEPT
                         ![t] = SetEnter(a.key, a.value,
                                         \E u \in SetThreads \ {t} : Inside(setters[u]))]
    /\ UNCHANGED <<environ, files, _config, call, sets, initial, mergeVars, getters, heap, loader, instances,
                   calcVars, toolVars>>

\* Thread t runs one statement of set().
SetStep(t) ==
    /\ Inside(setters[t])
    /\ LET r == SetTurn(setters[t], heap)
       IN /\ setters' = [setters EXCEPT ![t] = r.frame]
          /\ heap' = r.heap
          /\ _config' = TreeOf(r.heap, Ref(1))
    /\ UNCHANGED <<environ, files, call, sets, initial, mergeVars, getters, loader, instances, calcVars, toolVars>>

\* A manager constructed in one of the worlds of the life cycle, its tree
\* the object 1 of the heap, no thread inside a call.
SetThreadsInit ==
    /\ \E w \in LifeWorlds :
          /\ environ = w.env
          /\ files = w.fs
          /\ _load_config(w.env, w.fs).exc = "None"
          /\ _config = _load_config(w.env, w.fs).val
    /\ call = NoCall
    /\ sets = 0
    /\ initial = [environ |-> environ, files |-> files, tree |-> _config]
    /\ getters = <<>>
    /\ setters = [t \in SetThreads |-> IdleSetFrame]
    /\ heap = <<_config.d>>
    /\ loader = <<>>
    /\ instances = <<>>
    /\ NoMerge
    /\ NoCalculator
    /\ NoTools

SetThreadsNext ==
    \E t \in SetThreads :
        \/ SetCall(t)
        \/ SetStep(t)

SetThreadsSpec == SetThreadsInit /\ [][SetThreadsNext]_vars

\* No call entered while another was inside set().
Serialized == \A t \in SetThreads : ~setters[t].overlap

\* T1 ran set("a.b", 1), T2 ran set("a.c", 2), and both returned.
BothReturned ==
    /\ setters["T1"].pc = "done" /\ setters["T1"].key = <<"a", ".", "b">>
    /\ setters["T2"].pc = "done" /\ setters["T2"].key = <<"a", ".", "c">>

HasAB == Lookup(_config, <<"a", ".", "b">>, Missing) = PyInt(1)
HasAC == Lookup(_config, <<"a", ".", "c">>, Missing) = PyInt(2)

\* set(first) and then set(second), each run alone, on tree.
InTurn(tree, first, second) ==
    set(set(tree, first.key, first.value).val, second.key, second.value).val

\* C18: set("a.b", 1) and set("a.c", 2) by two threads on a tree without "a":
\* when the calls are serialized, in either order, the tree has both values
\* afterwards (every pair of serialized calls leaves the tree two lone set()
\* calls leave); when they overlap, at most one of the two values is missing,
\* and the witness shows an interleaving where one is.
C18_SerializedSetsKeepBoth ==
    /\ BothReturned => (HasAB \/ HasAC)
    /\ (BothReturned /\ Serialized) => (HasAB /\ HasAC)
    /\ (Serialized /\ \A t \in SetThreads : setters[t].pc = "done") =>
          LET a == setters["T1"]
              b == setters["T2"]
          IN _config \in {InTurn(initial.tree, a, b), InTurn(initial.tree, b, a)}

\* Both threads found "a" missing and created it: T2's dict replaced T1's, and
\* a.b = 1 went into the dict that is no longer in the tree.
C18_Witness ==
    /\ BothReturned
    /\ setters["T1"].exc = "None"
    /\ setters["T2"].exc = "None"
    /\ ~Resolves(initial.tree, <<K("a")>>)
    /\ ~Resolves(_config, <<K("a"), K("b")>>)
    /\ HasAC

---------------------------------------------------------------------------
(* utils/calculator.py (Calculator).  A number is an int or a float with   *)
(* its exact value num/den in lowest terms.  An entry of the history is    *)
(* the str an f-string builds: a sequence of tokens, the str() of a number *)
(* or a piece of literal text.                                             *)

Number(isFloat, num, den) == [float |-> isFloat, num |-> num, den |-> den, big |-> 0]
IntOf(n) == Number(FALSE, n, 1)

\* The int 2**53 + n: a number beyond the 53 bits of a float's mantissa
\* carries its multiple of 2**53 in the field big (0 or 1 in this model), so
\* the value of a number is big * 2**53 + num/den.  Only add() is given such
\* an operand.
Beyond53(n) == [Number(FALSE, n, 1) EXCEPT !.big = 1]

Abs(n) == IF n < 0 THEN -n ELSE n

RECURSIVE GCD(_, _)
GCD(m, n) == IF n = 0 THEN m ELSE GCD(n, m % n)

\* The number num/den (den # 0) in lowest terms.
Ratio(isFloat, num, den) ==
    LET g == GCD(Abs(num), Abs(den))
        sign == IF den < 0 THEN -1 ELSE 1
    IN Number(isFloat, sign * (num \div g), sign * (den \div g))

\* The float nearest to a float value: between 2**53 and 2**54 the floats
\* are the even integers, and the odd ones round to the multiple of 4 next
\* to them (round half to even).  Below 2**53 the values of this model are
\* floats as they are.
Nearest(x) ==
    IF x.float /\ x.big = 1 /\ x.den = 1 /\ x.num > 0
    THEN [x EXCEPT !.num = CASE x.num % 4 = 1 -> x.num - 1
                              [] x.num % 4 = 3 -> x.num + 1
                              [] OTHER -> x.num]
    ELSE x

\* float(x)
ToFloat(x) == Nearest([x EXCEPT !.float = TRUE])

IsZero(x) == x.num = 0 /\ x.big = 0
IsNegative(x) == x.big < 0 \/ (x.big = 0 /\ x.num < 0)
IsWhole(x) == x.den = 1

\* a + b: an int (exact) when both are ints, else the nearest float
Plus(a, b) ==
    Nearest([Ratio(a.float \/ b.float, a.num * b.den + b.num * a.den, a.den * b.den)
                EXCEPT !.big = a.big + b.big])

\* a - b, a * b: an int when both are ints (operands below 2**53)
Minus(a, b) == Ratio(a.float \/ b.float, a.num * b.den - b.num * a.den, a.den * b.den)
Times(a, b) == Ratio(a.float \/ b.float, a.num * b.num, a.den * b.den)

\* a / b for b # 0: always a float (operands below 2**53)
Quotient(a, b) == Ratio(TRUE, a.num * b.den, a.den * b.num)

\* b to the n-th, n a natural number
RECURSIVE NatPower(_, _)
NatPower(b, n) == IF n = 0 THEN 1 ELSE b * NatPower(b, n - 1)

\* The natural number whose square is n, for n a square.
Root(n) == CHOOSE r \in 0..n : r * r = n

\* math.sqrt(x) for x >= 0 (the square of a ratio, in this model)
MathSqrt(x) == Number(TRUE, Root(x.num), Root(x.den))

\* math.pow(x, y): a float, or ValueError ("math domain error") for 0 to a
\* negative power and for a negative base with a fractional exponent.  The
\* exponent is whole or 1/2 in this model.
MathPow(x, y) ==
    IF IsZero(x) /\ IsNegative(y) THEN [exc |-> "ValueError", val |-> <<>>]
    ELSE IF IsNegative(x) /\ ~IsWhole(y) THEN [exc |-> "ValueError", val |-> <<>>]
    ELSE IF IsWhole(y)
         THEN [exc |-> "None",
               val |-> <<IF y.num >= 0
                         THEN Ratio(TRUE, NatPower(x.num, y.num), NatPower(x.den, y.num))
                         ELSE Ratio(TRUE, NatPower(x.den, -y.num), NatPower(x.num, -y.num))>>]
         ELSE [exc |-> "None", val |-> <<MathSqrt(x)>>]

\* The tokens of an entry: str(x), and literal text.
Shown(x) == [kind |-> "number", text |-> "", number |-> x]
Text(t) == [kind |-> "text", text |-> t, number |-> IntOf(0)]

\* f"{a} <sign> {b} = {result}"
Entry(a, sign, b, result) == <<Shown(a), Text(sign), Shown(b), Text(" = "), Shown(result)>>

\* What a method does: the exception it raised ("None" if none), what it
\* returned (<<>> for nothing) and self.history afterwards.
Returns(x, h) == [exc |-> "None", val |-> <<x>>, history |-> h]
Raises(e, h) == [exc |-> e, val |-> <<>>, history |-> h]

add(h, a, b) ==
    LET result == Plus(a, b)
    IN Returns(result, Append(h, Entry(a, " + ", b, result)))

subtract(h, a, b) ==
    LET result == Minus(a, b)
    IN Returns(result, Append(h, Entry(a, " - ", b, result)))

\* Mutant: multiply returns the product without recording it.
MultiplyUnrecorded(h, a, b) == Returns(Times(a, b), h)

multiply(h, a, b) ==
    LET result == Times(a, b)
    IN Returns(result, Append(h, Entry(a, " * ", b, result)))

\* Mutant: no test of b, a / 0 raises ZeroDivisionError.
DivideUnchecked(h, a, b) ==
    IF IsZero(b) THEN Raises("ZeroDivisionError", h)
    ELSE Returns(Quotient(a, b), Append(h, Entry(a, " / ", b, Quotient(a, b))))

divide(h, a, b) ==
    IF IsZero(b) THEN Raises("ValueError", h)
    ELSE LET result == Quotient(a, b)
         IN Returns(result, Append(h, Entry(a, " / ", b, result)))

power(h, base, exponent) ==
    LET result == MathPow(base, exponent)
    IN IF result.exc # "None" THEN Raises(result.exc, h)
       ELSE Returns(result.val[1], Append(h, Entry(base, " ^ ", exponent, result.val[1])))

\* The literal text of the entry, the radical sign, is the token "sqrt".
sqrt(h, number) ==
    IF IsNegative(number) THEN Raises("ValueError", h)
    ELSE LET result == MathSqrt(number)
         IN Returns(result,
                    Append(h, <<Text("sqrt"), Shown(number), Text(" = "), Shown(result)>>))

\* get_history(): a copy of the list
get_history(h) == [exc |-> "None", val |-> h, history |-> h]

\* clear_history()
clear_history(h) == [exc |-> "None", val |-> <<>>, history |-> <<>>]

\* entry.split(" = ")[-1]: the tokens after the last " = "
RECURSIVE LastPart(_)
LastPart(entry) ==
    IF \E i \in 1..Len(entry) : entry[i] = Text(" = ")
    THEN LastPart(Tail(entry))
    ELSE entry

\* float(result_str)
ParseFloat(tokens) ==
    IF Len(tokens) = 1 /\ tokens[1].kind = "number"
    THEN [exc |-> "None", val |-> <<ToFloat(tokens[1].number)>>]
    ELSE [exc |-> "ValueError", val |-> <<>>]

\* get_last_result()
get_last_result(h) ==
    IF Len(h) = 0 THEN Raises("ValueError", h)
    ELSE LET last_entry == h[Len(h)]
             result == ParseFloat(LastPart(last_entry))
         IN [exc |-> result.exc, val |-> result.val, history |-> h]

---------------------------------------------------------------------------
(* Calculator specification: a calculator is created and used *)

\* How many entries the history grows to.
MaxHistory == 2

\* The operands of the binary operations: (6, 3), (10, 0), (-4, 0.5), (0, 0.0).
CalcPairs ==
    {<<IntOf(6), IntOf(3)>>, <<IntOf(10), IntOf(0)>>, <<IntOf(-4), Number(TRUE, 1, 2)>>,
     <<IntOf(0), Number(TRUE, 0, 1)>>}

\* The operands of add: those, and (2**53, 1).
AddPairs == CalcPairs \cup {<<Beyond53(0), IntOf(1)>>}

\* The operands of sqrt: -1, 0, 4, -0.25.
SqrtArgs == {IntOf(-1), IntOf(0), IntOf(4), Number(TRUE, -1, 4)}

\* Before the first call.
NoOutcome ==
    [op |-> "__init__", a |-> IntOf(0), b |-> IntOf(0), exc |-> "None", ret |-> <<>>,
     list |-> <<>>, pre |-> <<>>]

\* The record of the successful operations after the call of op with a
\* and b did r.
Logged(op, a, b, r) ==
    IF r.exc = "None"
    THEN Append(log, [op |-> op, a |-> a, b |-> b, result |-> r.val[1]])
    ELSE log

\* The latest call: op with a and b did r.
Outcome(op, a, b, r) ==
    [op |-> op, a |-> a, b |-> b, exc |-> r.exc, ret |-> r.val, list |-> <<>>,
     pre |-> history]

Add ==
    /\ \E p \in AddPairs :
          LET r == add(history, p[1], p[2])
          IN /\ Len(r.history) <= MaxHistory
             /\ history' = r.history
             /\ log' = Logged("add", p[1], p[2], r)
             /\ outcome' = Outcome("add", p[1], p[2], r)
    /\ UNCHANGED <<environ, files, _config, call, sets, initial, mergeVars, threadVars, toolVars>>

Subtract ==
    /\ \E p \in CalcPairs :
          LET r == subtract(history, p[1], p[2])
          IN /\ Len(r.history) <= MaxHistory
             /\ history' = r.history
             /\ log' = Logged("subtract", p[1], p[2], r)
             /\ outcome' = Outcome("subtract", p[1], p[2], r)
    /\ UNCHANGED <<environ, files, _config, call, sets, initial, mergeVars, threadVars, toolVars>>

Multiply ==
    /\ \E p \in CalcPairs :
          LET r == multiply(history, p[1], p[2])
          IN /\ Len(r.history) <= MaxHistory
             /\ history' = r.history
             /\ log' = Logged("multiply", p[1], p[2], r)
             /\ outcome' = Outcome("multiply", p[1], p[2], r)
    /\ UNCHANGED <<environ, files, _config, call, sets, initial, mergeVars, threadVars, toolVars>>

Divide ==
    /\ \E p \in CalcPairs :
          LET r == divide(history, p[1], p[2])
          IN /\ Len(r.history) <= MaxHistory
             /\ history' = r.history
             /\ log' = Logged("divide", p[1], p[2], r)
             /\ outcome' = Outcome("divide", p[1], p[2], r)
    /\ UNCHANGED <<environ, files, _config, call, sets, initial, mergeVars, threadVars, toolVars>>

Power ==
    /\ \E p \in CalcPairs :
          LET r == power(history, p[1], p[2])
          IN /\ Len(r.history) <= MaxHistory
             /\ history' = r.history
             /\ log' = Logged("power", p[1], p[2], r)
             /\ outcome' = Outcome("power", p[1], p[2], r)
    /\ UNCHANGED <<environ, files, _config, call, sets, initial, mergeVars, threadVars, toolVars>>

Sqrt ==
    /\ \E number \in SqrtArgs :
          LET r == sqrt(history, number)
          IN /\ Len(r.history) <= MaxHistory
             /\ history' = r.history
             /\ log' = Logged("sqrt", number, number, r)
             /\ outcome' = Outcome("sqrt", number, number, r)
    /\ UNCHANGED <<environ, files, _config, call, sets, initial, mergeVars, threadVars, toolVars>>

GetHistory ==
    /\ LET r == get_history(history)
       IN /\ history' = r.history
          /\ outcome' = [NoOutcome EXCEPT !.op = "get_history", !.list = r.val,
                                          !.pre = history]
    /\ UNCHANGED <<log, environ, files, _config, call, sets, initial, mergeVars, threadVars, toolVars>>

ClearHistory ==
    /\ LET r == clear_history(history)
       IN /\ history' = r.history
          /\ outcome' = [NoOutcome EXCEPT !.op = "clear_history", !.pre = history]
    /\ log' = <<>>
    /\ UNCHANGED <<environ, files, _config, call, sets, initial, mergeVars, threadVars, toolVars>>

GetLastResult ==
    /\ LET r == get_last_result(history)
       IN /\ history' = r.history
          /\ outcome' = [NoOutcome EXCEPT !.op = "get_last_result", !.exc = r.exc,
                                          !.ret = r.val, !.pre = history]
    /\ UNCHANGED <<log, environ, files, _config, call, sets, initial, mergeVars, threadVars, toolVars>>

\* Calculator(): self.history = []
CalcInit ==
    /\ history = <<>>
    /\ log = <<>>
    /\ outcome = NoOutcome
    /\ environ = NoEnv
    /\ files = NoFiles
    /\ _config = PyNone
    /\ call = NoCall
    /\ sets = 0
    /\ initial = NoInitial
    /\ NoMerge
    /\ NoThreads
    /\ NoTools

CalcNext ==
    \/ Add
    \/ Subtract
    \/ Multiply
    \/ Divide
    \/ Power
    \/ Sqrt
    \/ GetHistory
    \/ ClearHistory
    \/ GetLastResult

CalcSpec == CalcInit /\ [][CalcNext]_vars

\* C19: divide(a, 0) and sqrt(n) for n < 0 raise ValueError and leave the
\* history as it was.
C19_RejectedOperationsLeaveHistory ==
    /\ (outcome.op = "divide" /\ outcome.b.num = 0) =>
          (outcome.exc = "ValueError" /\ history = outcome.pre)
    /\ (outcome.op = "sqrt" /\ outcome.a.num < 0) =>
          (outcome.exc = "ValueError" /\ history = outcome.pre)

\* divide(0, 0.0) was rejected on a history that holds an entry.
C19_Witness ==
    /\ outcome.op = "divide"
    /\ outcome.b = Number(TRUE, 0, 1)
    /\ outcome.exc = "ValueError"
    /\ Len(history) = 1
    /\ Len(log) = 1

\* The entry that records the successful operation l.
Recorded(l) ==
    IF l.op = "sqrt"
    THEN <<Text("sqrt"), Shown(l.a), Text(" = "), Shown(l.result)>>
    ELSE <<Shown(l.a),
           Text(CASE l.op = "add" -> " + " [] l.op = "subtract" -> " - "
                  [] l.op = "multiply" -> " * " [] l.op = "divide" -> " / "
                  [] l.op = "power" -> " ^ "),
           Shown(l.b), Text(" = "), Shown(l.result)>>

\* C20: the history holds exactly one entry for each operation that
\* succeeded since the calculator was created or last cleared, in the order
\* of the calls, and each entry shows the operands and the result of its
\* call; get_history returns these entries.
C20_HistoryRecordsSuccesses ==
    /\ Len(history) = Len(log)
    /\ \A i \in 1..Len(log) : history[i] = Recorded(log[i])
    /\ outcome.op = "get_history" => outcome.list = history
    /\ (outcome.exc = "None" /\ outcome.op \in {"add", "subtract", "multiply", "divide",
                                                  "power", "sqrt"}) =>
          /\ history = Append(outcome.pre, Recorded(log[Len(log)]))
          /\ log[Len(log)].result = outcome.ret[1]

\* After a clear, a rejected division and two successful operations the
\* history holds the two entries "6 * 3 = 18" and "-4 / 0.5 = -8.0".
C20_Witness ==
    /\ Len(history) = 2
    /\ history[1] = <<Shown(IntOf(6)), Text(" * "), Shown(IntOf(3)), Text(" = "),
                      Shown(IntOf(18))>>
    /\ history[2] = <<Shown(IntOf(-4)), Text(" / "), Shown(Number(TRUE, 1, 2)), Text(" = "),
                      Shown(Number(TRUE, -8, 1))>>
    /\ outcome.op = "divide"

\* x == y in Python: the same value, int or float.
SameValue(x, y) == x.num = y.num /\ x.den = y.den /\ x.big = y.big

\* C21 as stated: clear_history empties the history; as long as no operation
\* has succeeded since the creation or the last clear, get_history returns
\* the empty list and get_last_result raises ValueError; once an operation
\* has succeeded, get_last_result returns the result of the latest one.
C21_ClearThenLastResult ==
    /\ outcome.op = "clear_history" => (history = <<>> /\ outcome.exc = "None")
    /\ (outcome.op = "get_history" /\ Len(log) = 0) => outcome.list = <<>>
    /\ (outcome.op = "get_last_result" /\ Len(log) = 0) => outcome.exc = "ValueError"
    /\ (outcome.op = "get_last_result" /\ Len(log) > 0) =>
          /\ outcome.exc = "None"
          /\ SameValue(outcome.ret[1], log[Len(log)].result)

-----------------------------------------------------------------------------
(* APIClient of utils/api_client.py: request, get, wait_for_status and      *)
(* health_check.  The server's answer to one call is an input; the clock is  *)
(* time.time() in whole seconds, which never runs backwards.                 *)

status_forcelist == {429, 500, 502, 503, 504}

RequestExceptions == {"ConnectionError", "RetryError"}

Answer(refused, status) == [refused |-> refused, status |-> status]

Response(exc, status) == [exc |-> exc, status |-> status]

\* Session.request behind the mounted retry adapter: a refused connection
\* raises ConnectionError, a status of the force list exhausts the retries
\* and raises RetryError, every other status is returned as the response.
session_request(answer) ==
    IF answer.refused THEN Response("ConnectionError", 0)
    ELSE IF answer.status \in status_forcelist THEN Response("RetryError", 0)
    ELSE Response("None", answer.status)

\* _log_response: logs, and swallows the decode error of a non-JSON body.
_log_response(response) == "None"

\* request: the except clause logs and re-raises; a response is logged and
\* returned.
request(answer) ==
    LET response == session_request(answer)
    IN  IF response.exc \in RequestExceptions THEN response
        ELSE Response(_log_response(response), response.status)

api_get(answer) == request(answer)

HealthCheckOnSuccess(answer) ==
    LET response == api_get(answer)
    IN  IF response.exc \in RequestExceptions THEN [exc |-> "None", ret |-> "False"]
        ELSE [exc |-> response.exc,
              ret |-> IF response.status < 300 THEN "True" ELSE "False"]

health_check(answer) ==
    LET response == api_get(answer)
    IN  IF response.exc \in RequestExceptions THEN [exc |-> "None", ret |-> "False"]
        ELSE [exc |-> response.exc,
              ret |-> IF response.status = 200 THEN "True" ELSE "False"]

MaxWait == 3
MaxInterval == 2
MaxLatency == 1

Answers == {Answer(TRUE, 0), Answer(FALSE, 200), Answer(FALSE, 204),
            Answer(FALSE, 404), Answer(FALSE, 503)}

ExpectedStatuses == {200, 503}

IdleClient ==
    [pc |-> "idle", op |-> "None", now |-> 0, start_time |-> 0,
     expected_status |-> 0, max_wait |-> 0, interval |-> 0, sent |-> 0,
     answer |-> Answer(FALSE, 0), exc |-> "None", status |-> 0, ret |-> "None"]

Polling == client.pc \in {"while", "get", "sleep"}

\* start_time = time.time()
WaitCall ==
    /\ client.pc = "idle"
    /\ \E e \in ExpectedStatuses, w \in (-1) .. MaxWait, i \in 1 .. MaxInterval :
          client' = [IdleClient EXCEPT !.pc = "while", !.op = "wait_for_status",
                                       !.expected_status = e, !.max_wait = w,
                                       !.interval = i]
    /\ UNCHANGED <<environ, files, _config, call, sets, initial, mergeVars,
                   threadVars, calcVars, wdm, runner, items>>

\* while time.time() - start_time < max_wait: ... return False
WaitTest ==
    /\ client.pc = "while"
    /\ client' = IF client.now - client.start_time < client.max_wait
                 THEN [client EXCEPT !.pc = "get"]
                 ELSE [client EXCEPT !.pc = "done", !.ret = "False"]
    /\ UNCHANGED <<environ, files, _config, call, sets, initial, mergeVars,
                   threadVars, calcVars, wdm, runner, items>>

WaitPollPropagating(answer, latency) ==
    LET response == api_get(answer)
        polled   == [client EXCEPT !.now = @ + latency, !.sent = @ + 1,
                                   !.answer = answer, !.exc = "None",
                                   !.status = response.status]
    IN  IF response.exc \in RequestExceptions
        THEN [polled EXCEPT !.pc = "done", !.exc = response.exc]
        ELSE IF response.status = client.expected_status
             THEN [polled EXCEPT !.pc = "done", !.ret = "True"]
             ELSE [polled EXCEPT !.pc = "sleep"]

\* try: response = self.get(endpoint); a match returns True, a request
\* exception is passed over, every other exception leaves the method.
WaitPollStep(answer, latency) ==
    LET response == api_get(answer)
        polled   == [client EXCEPT !.now = @ + latency, !.sent = @ + 1,
                                   !.answer = answer, !.exc = "None",
                                   !.status = response.status]
    IN  IF response.exc \in RequestExceptions
        THEN [polled EXCEPT !.pc = "sleep", !.exc = response.exc]
        ELSE IF response.exc # "None"
             THEN [polled EXCEPT !.pc = "done", !.exc = response.exc]
             ELSE IF response.status = client.expected_status
                  THEN [polled EXCEPT !.pc = "done", !.ret = "True"]
                  ELSE [polled EXCEPT !.pc = "sleep"]

WaitPoll ==
    /\ client.pc = "get"
    /\ \E answer \in Answers, latency \in 0 .. MaxLatency :
          client' = WaitPollStep(answer, latency)
    /\ UNCHANGED <<environ, files, _config, call, sets, initial, mergeVars,
                   threadVars, calcVars, wdm, runner, items>>

\* time.sleep(interval) suspends for at least interval seconds.
WaitSleep ==
    /\ client.pc = "sleep"
    /\ \E late \in 0 .. MaxLatency :
          client' = [client EXCEPT !.pc = "while", !.now = @ + client.interval + late]
    /\ UNCHANGED <<environ, files, _config, call, sets, initial, mergeVars,
                   threadVars, calcVars, wdm, runner, items>>

HealthCheck ==
    /\ client.pc = "idle"
    /\ \E answer \in Answers :
          LET r == health_check(answer)
          IN  client' = [IdleClient EXCEPT !.pc = "done", !.op = "health_check",
                                           !.sent = 1, !.answer = answer,
                                           !.exc = r.exc, !.ret = r.ret]
    /\ UNCHANGED <<environ, files, _config, call, sets, initial, mergeVars,
                   threadVars, calcVars, wdm, runner, items>>

Request ==
    /\ client.pc = "idle"
    /\ \E answer \in Answers :
          LET r == request(answer)
          IN  client' = [IdleClient EXCEPT !.pc = "done", !.op = "request",
                                           !.sent = 1, !.answer = answer,
                                           !.exc = r.exc, !.status = r.status]
    /\ UNCHANGED <<environ, files, _config, call, sets, initial, mergeVars,
                   threadVars, calcVars, wdm, runner, items>>

\* The caller takes the result and may call again.
ClientReturn ==
    /\ client.pc = "done"
    /\ client' = IdleClient
    /\ UNCHANGED <<environ, files, _config, call, sets, initial, mergeVars,
                   threadVars, calcVars, wdm, runner, items>>

ClientInit ==
    /\ environ = NoEnv
    /\ files = NoFiles
    /\ _config = PyNone
    /\ call = NoCall
    /\ sets = 0
    /\ initial = NoInitial
    /\ NoMerge
    /\ NoThreads
    /\ NoCalculator
    /\ client = IdleClient
    /\ wdm = <<>>
    /\ runner = <<>>
    /\ items = <<>>

ClientNext ==
    \/ WaitCall
    \/ WaitTest
    \/ WaitPoll
    \/ WaitSleep
    \/ HealthCheck
    \/ Request
    \/ ClientReturn

\* Every started call is scheduled until it returns: a GET ends (the session
\* has a timeout) and a sleep ends.
ClientSpec ==
    /\ ClientInit
    /\ [][ClientNext]_vars
    /\ WF_vars(WaitTest)
    /\ WF_vars(WaitPoll)
    /\ WF_vars(WaitSleep)

\* The last poll of the running wait_for_status call returned the expected
\* status.
Matched ==
    /\ client.sent > 0
    /\ client.exc = "None"
    /\ client.status = client.expected_status

Waiting == client.op = "wait_for_status"

\* C22: wait_for_status terminates for every max_wait and every positive
\* interval; it returns True exactly when a poll returned the expected status
\* and sends nothing after that poll, keeps polling after a poll that raised a
\* request exception or returned another status, returns False only once
\* max_wait seconds have elapsed, never propagates a request exception, and
\* with max_wait <= 0 returns False without sending a request.
C22_WaitForStatusTerminates ==
    /\ [](Waiting =>
            /\ client.exc \in RequestExceptions => client.pc # "done" \/ client.ret = "False"
            /\ client.pc = "done" => client.ret \in {"True", "False"}
            /\ Matched <=> client.ret = "True"
            /\ Matched => client.pc = "done"
            /\ client.ret = "False" =>
                  client.now - client.start_time >= client.max_wait
            /\ client.max_wait <= 0 =>
                  client.sent = 0 /\ (client.pc = "done" => client.ret = "False"))
    /\ Polling ~> (client.pc = "done")

C22_Witness ==
    /\ Waiting
    /\ client.pc = "done"
    /\ client.ret = "False"
    /\ client.sent >= 2
    /\ client.exc \in RequestExceptions

\* C23: health_check returns True exactly when the GET completed with status
\* 200, returns False for every other status and when the request raised a
\* request exception, which it never propagates; request re-raises every
\* request exception of the session.
C23_HealthCheckSwallowsRequestRaises ==
    /\ client.op = "health_check" =>
          /\ client.exc = "None"
          /\ client.ret \in {"True", "False"}
          /\ client.ret = "True" <=>
                (~client.answer.refused /\ client.answer.status = 200)
    /\ client.op = "request" =>
          /\ client.exc = session_request(client.answer).exc
          /\ (client.answer.refused \/ client.answer.status \in status_forcelist)
                => client.exc \in RequestExceptions

C23_Witness ==
    /\ client.op = "health_check"
    /\ client.answer.refused
    /\ client.ret = "False"

-----------------------------------------------------------------------------
(* Reloads while the override file and the environment change *)

\* What staging.yaml is rewritten to between two loads: a scalar in place of
\* the section api, a new section and another api.timeout, or text that
\* safe_load rejects.
ReloadDocs ==
    {PyDict(K("api") :> Lit("off")),
     PyDict(K("extra") :> PyDict(K("key") :> PyInt(1))
            @@ K("api") :> PyDict(K("timeout") :> PyInt(5))),
     Malformed}

\* API_TIMEOUT is unset or "45".
ReloadEnvs == {NoEnv, "API_TIMEOUT" :> <<"4", "5">>}

Edited(op, arg) ==
    [op |-> op, key |-> <<>>, arg |-> arg, exc |-> "None", ret |-> PyNone, pre |-> PyNone]

\* Someone rewrites config/staging.yaml.
WriteFile ==
    /\ \E doc \in ReloadDocs :
          /\ files' = (K("staging") :> doc)
          /\ call' = Edited("write_file", doc)
    /\ files' # files
    /\ UNCHANGED <<environ, _config, sets, initial, mergeVars, threadVars, calcVars, toolVars>>

\* Someone removes config/staging.yaml.
RemoveFile ==
    /\ files # NoFiles
    /\ files' = NoFiles
    /\ call' = Edited("remove_file", PyNone)
    /\ UNCHANGED <<environ, _config, sets, initial, mergeVars, threadVars, calcVars, toolVars>>

\* os.environ is changed.
PutEnv ==
    /\ \E env \in ReloadEnvs \ {environ} : environ' = env
    /\ call' = Edited("putenv", PyNone)
    /\ UNCHANGED <<files, _config, sets, initial, mergeVars, threadVars, calcVars, toolVars>>

ReloadInit ==
    /\ environ \in ReloadEnvs
    /\ files \in {NoFiles} \cup {K("staging") :> doc : doc \in ReloadDocs}
    /\ _config = PyNone
    /\ call = NoCall
    /\ sets = 0
    /\ initial = NoInitial
    /\ NoMerge
    /\ NoThreads
    /\ NoCalculator
    /\ NoTools

ReloadNext ==
    \/ Construct
    \/ Reload
    \/ LifeSet
    \/ WriteFile
    \/ RemoveFile
    \/ PutEnv

ReloadSpec == ReloadInit /\ [][ReloadNext]_vars

ExtraKey == <<K("extra"), K("key")>>

\* C24: no load, merge, set or reload changes the defaults a load starts
\* from: a reload that completed holds, at every leaf, what the variables, the
\* present file and the defaults give now (nothing an earlier file added or
\* changed), it holds the defaults themselves when no file and no recognized
\* variable is there, and a second reload right after it changes nothing.
C24_ReloadStartsFromDefaults ==
    /\ [](Reloaded =>
            /\ \A p \in PathsOf(_config) :
                  IsLeaf(Walk(_config, p).val) =>
                      Walk(_config, p) = ExpectedAt(p, SetEntries, ActiveFileDoc)
            /\ (ActiveFileDoc = EmptyDict /\ SetEntries = {}) => _config = default_config)
    /\ [][(Reloaded /\ Reloaded') => _config' = _config]_vars

\* A reload that completed after the file that had added extra.key was removed
\* or rewritten.
C24_Witness ==
    /\ Reloaded
    /\ Resolves(call.pre, ExtraKey)
    /\ ~Resolves(ActiveFileDoc, ExtraKey)
    /\ ~Resolves(_config, ExtraKey)

ReloadFailed == call.op = "reload_config" /\ call.exc # "None"

\* C25: a reload that raises (the file is malformed, or a variable is applied
\* to a section the file replaced by a scalar) leaves the manager holding the
\* tree it held before, set() changes included.
C25_FailedReloadKeepsTree ==
    ReloadFailed => _config = call.pre

\* A reload that failed on a variable applied to a scalar section, after a
\* set() had added custom.key.
C25_Witness ==
    /\ ReloadFailed
    /\ call.exc = "TypeError"
    /\ Resolves(_config, <<K("custom"), K("key")>>)

-----------------------------------------------------------------------------
(* get() in threads while another thread runs reload_config(): a statement  *)
(* of _load_config is a step, default_config is the local of the loader.    *)

IdleLoader == [pc |-> "idle", default_config |-> PyNone, exc |-> "None"]

\* The worlds the manager was constructed in and is reloaded in: those of the
\* life cycle, and API_TIMEOUT=45 with a staging.yaml that holds api: "off".
RaceWorlds ==
    LifeWorlds \cup
    {[env |-> "API_TIMEOUT" :> <<"4", "5">>, fs |-> K("staging") :> PyDict(K("api") :> Lit("off"))]}

\* reload_config() is called: default_config = {...}
ReloadCall ==
    /\ loader.pc = "idle"
    /\ loader' = [IdleLoader EXCEPT !.pc = "file", !.default_config = default_config]
    /\ UNCHANGED <<environ, files, _config, call, sets, initial, mergeVars, getters,
                   setters, heap, instances, calcVars, toolVars>>

\* Mutant: self._config is assigned as soon as the file is merged, and the
\* variables are applied to the published tree.
ReloadMergePublishing ==
    /\ loader.pc = "file"
    /\ LET merged == MergeEnvFile(loader.default_config, environ, files)
       IN /\ loader' = IF merged.exc # "None"
                       THEN [loader EXCEPT !.pc = "done", !.exc = merged.exc]
                       ELSE [loader EXCEPT !.pc = "env", !.default_config = merged.val]
          /\ _config' = IF merged.exc # "None" THEN _config ELSE merged.val
    /\ UNCHANGED <<environ, files, call, sets, initial, mergeVars, getters,
                   setters, heap, instances, calcVars, toolVars>>

\* if env_config_file.exists(): ... self._merge_config(default_config, env_config)
ReloadMerge ==
    /\ loader.pc = "file"
    /\ LET merged == MergeEnvFile(loader.default_config, environ, files)
       IN loader' = IF merged.exc # "None"
                    THEN [loader EXCEPT !.pc = "done", !.exc = merged.exc]
                    ELSE [loader EXCEPT !.pc = "env", !.default_config = merged.val]
    /\ UNCHANGED <<environ, files, _config, call, sets, initial, mergeVars, getters,
                   setters, heap, instances, calcVars, toolVars>>

\* self._override_with_env_vars(default_config)
ReloadOverride ==
    /\ loader.pc = "env"
    /\ LET overridden == _override_with_env_vars(loader.default_config, environ)
       IN loader' = IF overridden.exc # "None"
                    THEN [loader EXCEPT !.pc = "done", !.exc = overridden.exc]
                    ELSE [loader EXCEPT !.pc = "assign", !.default_config = overridden.val]
    /\ UNCHANGED <<environ, files, _config, call, sets, initial, mergeVars, getters,
                   setters, heap, instances, calcVars, toolVars>>

\* self._config = default_config
ReloadAssign ==
    /\ loader.pc = "assign"
    /\ _config' = loader.default_config
    /\ loader' = [loader EXCEPT !.pc = "done"]
    /\ UNCHANGED <<environ, files, call, sets, initial, mergeVars, getters,
                   setters, heap, instances, calcVars, toolVars>>

\* reload_config() returns or raises; it may be called again.
ReloadReturn ==
    /\ loader.pc = "done"
    /\ loader' = IdleLoader
    /\ UNCHANGED <<environ, files, _config, call, sets, initial, mergeVars, getters,
                   setters, heap, instances, calcVars, toolVars>>

\* A manager constructed in one world, the file and the variables changed to
\* another since, no thread inside a call.
RaceInit ==
    /\ \E w \in RaceWorlds :
          /\ _load_config(w.env, w.fs).exc = "None"
          /\ _config = _load_config(w.env, w.fs).val
          /\ initial = [environ |-> w.env, files |-> w.fs, tree |-> _config]
    /\ \E w \in RaceWorlds :
          /\ environ = w.env
          /\ files = w.fs
    /\ call = NoCall
    /\ sets = 0
    /\ getters = [t \in Threads |-> IdleFrame]
    /\ setters = <<>>
    /\ heap = <<>>
    /\ loader = IdleLoader
    /\ instances = <<>>
    /\ NoMerge
    /\ NoCalculator
    /\ NoTools

\* One thread calls get(), another reload_config().
RaceGetters == {1}

RaceNext ==
    \/ \E t \in RaceGetters :
          \/ GetCall(t)
          \/ GetStep(t)
          \/ GetReturn(t)
    \/ ReloadCall
    \/ ReloadMerge
    \/ ReloadOverride
    \/ ReloadAssign
    \/ ReloadReturn

RaceSpec == RaceInit /\ [][RaceNext]_vars

\* The tree the reload publishes: the load of the present file and variables,
\* or, when that load raises, the tree held before.
PostReload ==
    LET loaded == _load_config(environ, files)
    IN IF loaded.exc = "None" THEN loaded.val ELSE initial.tree

\* C26: while a reload runs, the manager holds the complete pre-reload tree or
\* the complete post-reload tree, and every get() that overlaps the reload
\* returns what the pre-reload tree or the post-reload tree gives for its key.
C26_GetSeesPreOrPostReload ==
    /\ _config \in {initial.tree, PostReload}
    /\ \A t \in RaceGetters :
          getters[t].pc = "done" =>
              /\ getters[t].exc = "None"
              /\ getters[t].ret \in {Lookup(initial.tree, getters[t].key, getters[t].default),
                                     Lookup(PostReload, getters[t].key, getters[t].default)}

\* A get() that returned the pre-reload value while the reload was about to
\* publish a tree that gives another value.
C26_Witness ==
    /\ loader.pc = "assign"
    /\ \E t \in RaceGetters :
          /\ getters[t].pc = "done"
          /\ getters[t].ret = Lookup(initial.tree, getters[t].key, getters[t].default)
          /\ getters[t].ret # Lookup(loader.default_config, getters[t].key, getters[t].default)

-----------------------------------------------------------------------------
(* Several managers in one process: the module-level config_manager, the    *)
(* instance conftest.py creates and the one a WebDriverManager creates.     *)

Managers == {"config_manager", "conftest", "webdriver_manager"}

NoManagers == [trees |-> [m \in Managers |-> PyNone], actor |-> "None", op |-> "None"]

\* Mutant: _config is an attribute of the class, one tree for all managers.
AssignClassConfig(trees, m, tree) == [n \in DOMAIN trees |-> tree]

\* self._config = ...: the attribute of the instance m.
AssignConfig(trees, m, tree) == [trees EXCEPT ![m] = tree]

\* set() is called with ("custom.key", 7).
ManagerSets == {[key |-> <<"custom", ".", "key">>, value |-> PyInt(7)]}

ManagerGetKeys ==
    {<<"custom", ".", "key">>, <<"web", ".", "base_url">>, <<"extra", ".", "key">>,
     <<"api", ".", "timeout">>}

\* m = ConfigManager()
ManagerConstruct(m) ==
    /\ instances.trees[m] = PyNone
    /\ LET r == _load_config(environ, files)
       IN /\ r.exc = "None"
          /\ instances' = [trees |-> AssignConfig(instances.trees, m, r.val),
                           actor |-> m, op |-> "__init__"]
    /\ UNCHANGED <<environ, files, _config, call, sets, initial, mergeVars, getters,
                   setters, heap, loader, calcVars, toolVars>>

\* m.set(key, value)
ManagerSet(m) ==
    /\ instances.trees[m] # PyNone
    /\ \E a \in ManagerSets :
          LET r == set(instances.trees[m], a.key, a.value)
          IN instances' = [trees |-> AssignConfig(instances.trees, m, r.val),
                           actor |-> m, op |-> "set"]
    /\ UNCHANGED <<environ, files, _config, call, sets, initial, mergeVars, getters,
                   setters, heap, loader, calcVars, toolVars>>

\* m.reload_config()
ManagerReload(m) ==
    /\ instances.trees[m] # PyNone
    /\ LET r == reload_config(instances.trees[m], environ, files)
       IN instances' = [trees |-> AssignConfig(instances.trees, m, r.val),
                        actor |-> m, op |-> "reload_config"]
    /\ UNCHANGED <<environ, files, _config, call, sets, initial, mergeVars, getters,
                   setters, heap, loader, calcVars, toolVars>>

ManagersInit ==
    /\ environ = NoEnv
    /\ files = NoFiles
    /\ _config = PyNone
    /\ call = NoCall
    /\ sets = 0
    /\ initial = NoInitial
    /\ getters = <<>>
    /\ setters = <<>>
    /\ heap = <<>>
    /\ loader = <<>>
    /\ instances = NoManagers
    /\ NoMerge
    /\ NoCalculator
    /\ NoTools

ManagersNext ==
    \/ \E m \in Managers :
          \/ ManagerConstruct(m)
          \/ ManagerSet(m)
          \/ ManagerReload(m)
    \/ WriteFile
    \/ RemoveFile

ManagersSpec == ManagersInit /\ [][ManagersNext]_vars

\* C27: a step in which one manager is constructed, set or reloaded leaves
\* the tree of every other manager, and so what get() returns on it for every
\* key, as it was.
C27_ManagersIndependent ==
    [][\A m \in Managers \ {instances'.actor} :
          /\ instances'.trees[m] = instances.trees[m]
          /\ instances.trees[m] # PyNone =>
                \A key \in ManagerGetKeys :
                    get(instances'.trees[m], key, Missing) = get(instances.trees[m], key, Missing)
      ]_vars

\* conftest's manager was set and holds custom.key; the two other managers
\* are constructed and do not hold it.
C27_Witness ==
    /\ instances.actor = "conftest"
    /\ instances.op = "set"
    /\ Resolves(instances.trees["conftest"], <<K("custom"), K("key")>>)
    /\ \A m \in Managers \ {"conftest"} :
          /\ instances.trees[m] # PyNone
          /\ ~Resolves(instances.trees[m], <<K("custom"), K("key")>>)

-----------------------------------------------------------------------------
(* WebDriverManager of utils/webdriver_manager.py.  A driver is the number  *)
(* of the browser session it stands for, None is 0.                          *)

MaxDrivers == 2

NoDriver == 0

Chrome == <<"c", "h", "r", "o", "m", "e">>
Firefox == <<"F", "i", "r", "e", "f", "o", "x">>
Opera == <<"o", "p", "e", "r", "a">>

SupportedBrowsers ==
    {Chrome, <<"f", "i", "r", "e", "f", "o", "x">>, <<"e", "d", "g", "e">>,
     <<"s", "a", "f", "a", "r", "i">>}

\* get_driver is called with "chrome", "Firefox", "opera" or no browser, and
\* browser.name of the configuration is "chrome" or "opera".
BrowserArgs == {Chrome, Firefox, Opera, <<>>}
ConfiguredBrowsers == {Chrome, Opera}

\* What the browser does when a session is created and set up.
DriverOutcomes == {"ok", "create_fails", "configure_fails"}

\* The methods that begin with `if not self.driver: raise RuntimeError`.
DriverOperations ==
    {"take_screenshot", "get_page_source", "get_current_url", "get_title",
     "refresh_page", "navigate_back", "navigate_forward", "maximize_window",
     "minimize_window", "set_window_size", "get_window_size", "add_cookie",
     "delete_cookie", "delete_all_cookies", "get_cookies"}

\* wdm: the driver held, the next session number, how often quit() was called
\* on each session, and the last call: its method, the driver held before it
\* and what it raised.
NewManager ==
    [driver |-> NoDriver, created |-> 0, quits |-> [d \in {} |-> 0],
     op |-> "__init__", pre |-> NoDriver, exc |-> "None"]

\* get_driver(browser): the driver held afterwards and what was raised.
get_driver(m, browser, configured, session) ==
    LET name == IF browser # <<>> THEN browser ELSE configured
    IN  IF Lower(name) \notin SupportedBrowsers
        THEN [m EXCEPT !.op = "get_driver", !.pre = m.driver, !.exc = "ValueError"]
        ELSE IF session = "create_fails"
             THEN [m EXCEPT !.op = "get_driver", !.pre = m.driver,
                            !.exc = "WebDriverException"]
             ELSE [m EXCEPT !.op = "get_driver", !.pre = m.driver,
                            !.driver = m.created + 1, !.created = @ + 1,
                            !.quits = @ @@ ((m.created + 1) :> 0),
                            !.exc = IF session = "ok" THEN "None" ELSE "WebDriverException"]

\* Mutant: quit_driver without `self.driver = None`.
QuitKeepingDriver(m) ==
    IF m.driver # NoDriver
    THEN [m EXCEPT !.op = "quit_driver", !.pre = m.driver, !.exc = "None",
                   !.quits[m.driver] = @ + 1]
    ELSE [m EXCEPT !.op = "quit_driver", !.pre = m.driver, !.exc = "None"]

\* quit_driver(): if self.driver: self.driver.quit(); self.driver = None
quit_driver(m) ==
    IF m.driver # NoDriver
    THEN [m EXCEPT !.op = "quit_driver", !.pre = m.driver, !.exc = "None",
                   !.quits[m.driver] = @ + 1, !.driver = NoDriver]
    ELSE [m EXCEPT !.op = "quit_driver", !.pre = m.driver, !.exc = "None"]

\* Any of the driver operations: the guard, then the call on the driver.
driver_operation(m, op) ==
    IF m.driver = NoDriver
    THEN [m EXCEPT !.op = op, !.pre = m.driver, !.exc = "RuntimeError"]
    ELSE [m EXCEPT !.op = op, !.pre = m.driver, !.exc = "None"]

GetDriver ==
    /\ wdm.created < MaxDrivers
    /\ \E browser \in BrowserArgs, configured \in ConfiguredBrowsers,
          session \in DriverOutcomes :
          wdm' = get_driver(wdm, browser, configured, session)
    /\ UNCHANGED <<environ, files, _config, call, sets, initial, mergeVars,
                   threadVars, calcVars, client, runner, items>>

QuitDriver ==
    /\ wdm' = quit_driver(wdm)
    /\ UNCHANGED <<environ, files, _config, call, sets, initial, mergeVars,
                   threadVars, calcVars, client, runner, items>>

DriverOperation ==
    /\ \E op \in DriverOperations : wdm' = driver_operation(wdm, op)
    /\ UNCHANGED <<environ, files, _config, call, sets, initial, mergeVars,
                   threadVars, calcVars, client, runner, items>>

DriverInit ==
    /\ environ = NoEnv
    /\ files = NoFiles
    /\ _config = PyNone
    /\ call = NoCall
    /\ sets = 0
    /\ initial = NoInitial
    /\ NoMerge
    /\ NoThreads
    /\ NoCalculator
    /\ client = <<>>
    /\ wdm = NewManager
    /\ runner = <<>>
    /\ items = <<>>

DriverNext ==
    \/ GetDriver
    \/ QuitDriver
    \/ DriverOperation

DriverSpec == DriverInit /\ [][DriverNext]_vars

RaisedUnsupported == wdm.op = "get_driver" /\ wdm.exc = "ValueError"

AllOperationsRaise ==
    \A op \in DriverOperations : driver_operation(wdm, op).exc = "RuntimeError"

\* quit_driver quits the driver held once and resets; no session is ever
\* quit twice, so a second quit_driver does nothing.
QuitsOnce ==
    /\ \A d \in DOMAIN wdm.quits : wdm.quits[d] <= 1
    /\ wdm.op = "quit_driver" =>
          /\ wdm.driver = NoDriver
          /\ wdm.exc = "None"
          /\ wdm.pre # NoDriver => wdm.quits[wdm.pre] = 1

-----------------------------------------------------------------------------
(* main() of run_tests.py.  Whether a command exits with 0 is an input.     *)

Suites == {"unit", "api", "e2e"}
Lints == {"black", "isort", "flake8"}

\* runner: the statement main() is at, success, the commands run so far with
\* what run_command returned, and the exit status once main() has ended.
Started ==
    [pc |-> "unit", success |-> TRUE, ran |-> <<>>, status |-> 0]

\* run_command(command, description): result.returncode == 0
run_command(returncode) == returncode = 0

Returncodes == {0, 1}

\* After the command `name` was run with this return code.
Ran(name, returncode) ==
    Append(runner.ran, [name |-> name, ok |-> run_command(returncode)])

\* success &= run_command("pytest tests/unit/ ...")
RunUnit ==
    /\ runner.pc = "unit"
    /\ \E rc \in Returncodes :
          runner' = [runner EXCEPT !.pc = "api", !.ran = Ran("unit", rc),
                                   !.success = @ /\ run_command(rc)]
    /\ UNCHANGED <<environ, files, _config, call, sets, initial, mergeVars,
                   threadVars, calcVars, client, wdm, items>>

\* success &= run_command("pytest tests/api/ ...")
RunApi ==
    /\ runner.pc = "api"
    /\ \E rc \in Returncodes :
          runner' = [runner EXCEPT !.pc = "e2e", !.ran = Ran("api", rc),
                                   !.success = @ /\ run_command(rc)]
    /\ UNCHANGED <<environ, files, _config, call, sets, initial, mergeVars,
                   threadVars, calcVars, client, wdm, items>>

\* Mutant: the E2E suite is run whatever the earlier suites returned.
RunE2EAlways ==
    /\ runner.pc = "e2e"
    /\ \E rc \in Returncodes :
          runner' = [runner EXCEPT !.pc = "black", !.ran = Ran("e2e", rc),
                                   !.success = @ /\ run_command(rc)]
    /\ UNCHANGED <<environ, files, _config, call, sets, initial, mergeVars,
                   threadVars, calcVars, client, wdm, items>>

\* if success: success &= run_command("pytest tests/e2e/ ...") else: skip
RunE2E ==
    /\ runner.pc = "e2e"
    /\ IF runner.success
       THEN \E rc \in Returncodes :
               runner' = [runner EXCEPT !.pc = "black", !.ran = Ran("e2e", rc),
                                        !.success = @ /\ run_command(rc)]
       ELSE runner' = [runner EXCEPT !.pc = "black"]
    /\ UNCHANGED <<environ, files, _config, call, sets, initial, mergeVars,
                   threadVars, calcVars, client, wdm, items>>

\* run_command("black --check ."), run_command("isort --check-only ."),
\* run_command("flake8 ..."): the result is dropped.
RunLint ==
    /\ runner.pc \in Lints
    /\ \E rc \in Returncodes :
          runner' = [runner EXCEPT
                        !.pc = CASE runner.pc = "black" -> "isort"
                                 [] runner.pc = "isort" -> "flake8"
                                 [] runner.pc = "flake8" -> "report",
                        !.ran = Ran(runner.pc, rc)]
    /\ UNCHANGED <<environ, files, _config, call, sets, initial, mergeVars,
                   threadVars, calcVars, client, wdm, items>>

\* if success: print(...) else: ...; sys.exit(1)
Report ==
    /\ runner.pc = "report"
    /\ runner' = [runner EXCEPT !.pc = "exited",
                                !.status = IF runner.success THEN 0 ELSE 1]
    /\ UNCHANGED <<environ, files, _config, call, sets, initial, mergeVars,
                   threadVars, calcVars, client, wdm, items>>

\* The script is started again.
Restart ==
    /\ runner.pc = "exited"
    /\ runner' = Started
    /\ UNCHANGED <<environ, files, _config, call, sets, initial, mergeVars,
                   threadVars, calcVars, client, wdm, items>>

RunnerInit ==
    /\ environ = NoEnv
    /\ files = NoFiles
    /\ _config = PyNone
    /\ call = NoCall
    /\ sets = 0
    /\ initial = NoInitial
    /\ NoMerge
    /\ NoThreads
    /\ NoCalculator
    /\ client = <<>>
    /\ wdm = <<>>
    /\ runner = Started
    /\ items = <<>>

RunnerNext ==
    \/ RunUnit
    \/ RunApi
    \/ RunE2E
    \/ RunLint
    \/ Report
    \/ Restart

\* main() runs to its end: every command returns.
RunnerSpec ==
    /\ RunnerInit
    /\ [][RunnerNext]_vars
    /\ WF_vars(RunUnit) /\ WF_vars(RunApi) /\ WF_vars(RunE2E)
    /\ WF_vars(RunLint) /\ WF_vars(Report)

\* The position of the run of `name` in runner.ran, 0 if it was not run.
RanAt(name) ==
    IF \E i \in 1..Len(runner.ran) : runner.ran[i].name = name
    THEN CHOOSE i \in 1..Len(runner.ran) : runner.ran[i].name = name
    ELSE 0

Passed(name) == RanAt(name) # 0 /\ runner.ran[RanAt(name)].ok

Exited == runner.pc = "exited"

\* C29: every started main() ends; by then the unit suite and the API suite
\* have run, in this order, the API suite also after a failed unit suite; the
\* E2E suite has run exactly when both succeeded; the three lint checks have
\* run after the suites whatever those returned; and the exit status is 1
\* exactly when a suite that was run failed, whatever the lint checks returned.
C29_SuitesLintAndExitStatus ==
    /\ [](Exited =>
            /\ RanAt("unit") = 1
            /\ RanAt("api") = 2
            /\ RanAt("e2e") # 0 <=> (Passed("unit") /\ Passed("api"))
            /\ \A l \in Lints : RanAt(l) > RanAt("api") /\ RanAt(l) > RanAt("e2e")
            /\ \A i, j \in 1..Len(runner.ran) :
                  runner.ran[i].name = runner.ran[j].name => i = j
            /\ runner.status = 1 <=>
                  \E n \in Suites : RanAt(n) # 0 /\ ~Passed(n)
            /\ runner.status \in {0, 1})
    /\ (runner.pc = "unit") ~> Exited

\* main() ended with status 1: the unit suite failed, the API suite was run
\* and passed, the E2E suite was skipped and all lint checks passed.
C29_Witness ==
    /\ Exited
    /\ runner.status = 1
    /\ ~Passed("unit")
    /\ Passed("api")
    /\ RanAt("e2e") = 0
    /\ \A l \in Lints : Passed(l)

-----------------------------------------------------------------------------
(* pytest_collection_modifyitems of conftest.py.  A path is the sequence of *)
(* the pieces of str(item.path); `needle in path` is a run of pieces.       *)

\* The directories the repository is checked out in: /work/repo and
\* /work/test_api_ci.
Rootdirs ==
    {<<"/", "work", "/", "repo", "/">>,
     <<"/", "work", "/", "test", "_", "api", "_", "ci", "/">>}

\* The test files of the repository, relative to the rootdir.
TestFiles ==
    [test_api    |-> <<"test", "s", "/", "api", "/", "test", "_", "api", ".py">>,
     test_ui     |-> <<"test", "s", "/", "e2e", "/", "test", "_", "ui", ".py">>,
     test_demoqa |-> <<"test", "s", "/", "e2e", "/", "test", "_", "demoqa", ".py">>,
     test_smoke  |-> <<"test", "s", "/", "e2e", "/", "test", "_", "smoke", ".py">>,
     test_math   |-> <<"test", "s", "/", "unit", "/", "test", "_", "math", ".py">>]

E2EFiles == {"test_ui", "test_demoqa", "test_smoke"}

Needle(name) == <<"test", "_", name>>

\* The markers the loop body adds to an item with this path.
MarkersFor(test_path) ==
    LET located ==
            IF IsSubstring(Needle("api"), test_path) THEN {"api"}
            ELSE IF IsSubstring(Needle("ui"), test_path) \/ IsSubstring(Needle("e2e"), test_path)
                 THEN {"ui"}
                 ELSE IF IsSubstring(Needle("unit"), test_path)
                         \/ IsSubstring(Needle("math"), test_path)
                      THEN {"unit"}
                      ELSE {}
        slow ==
            IF IsSubstring(Needle("ui"), test_path) \/ IsSubstring(Needle("e2e"), test_path)
            THEN {"slow"}
            ELSE {}
    IN  located \cup slow

NotCollected == [phase |-> "start", list |-> <<>>]

\* pytest collects one test of each file of a selection.
Collect ==
    /\ items.phase = "start"
    /\ \E root \in Rootdirs, selection \in (SUBSET DOMAIN TestFiles) \ {{}} :
          items' = [phase |-> "collected",
                    list |-> [f \in selection |->
                                 [path |-> root \o TestFiles[f], markers |-> {}]]]
    /\ UNCHANGED <<environ, files, _config, call, sets, initial, mergeVars,
                   threadVars, calcVars, client, wdm, runner>>

\* pytest_collection_modifyitems(config, items)
ModifyItems ==
    /\ items.phase = "collected"
    /\ items' = [phase |-> "modified",
                 list |-> [f \in DOMAIN items.list |->
                              [items.list[f] EXCEPT
                                  !.markers = @ \cup MarkersFor(items.list[f].path)]]]
    /\ UNCHANGED <<environ, files, _config, call, sets, initial, mergeVars,
                   threadVars, calcVars, client, wdm, runner>>

CollectInit ==
    /\ environ = NoEnv
    /\ files = NoFiles
    /\ _config = PyNone
    /\ call = NoCall
    /\ sets = 0
    /\ initial = NoInitial
    /\ NoMerge
    /\ NoThreads
    /\ NoCalculator
    /\ client = <<>>
    /\ wdm = <<>>
    /\ runner = <<>>
    /\ items = NotCollected

CollectNext ==
    \/ Collect
    \/ ModifyItems

CollectSpec == CollectInit /\ [][CollectNext]_vars

\* C30 as stated: after pytest_collection_modifyitems every collected test of
\* tests/e2e (test_ui.py, test_demoqa.py, test_smoke.py) carries the markers ui
\* and slow, every test of test_api.py carries api and every test of
\* test_math.py carries unit.
C30_FilesReceiveMarkers ==
    items.phase = "modified" =>
        \A f \in DOMAIN items.list :
            /\ f \in E2EFiles => {"ui", "slow"} \subseteq items.list[f].markers
            /\ f = "test_api" => "api" \in items.list[f].markers
            /\ f = "test_math" => "unit" \in items.list[f].markers

=============================================================================
